---- MODULE Spec2Model ----
(***************************************************************************)
(* Three programs of the repository as state machines over one set of     *)
(* variables; each specification starts one of them and leaves the others *)
(* absent.                                                                 *)
(*                                                                         *)
(* 1. Air liveness analysis (AbstractLiveness / LocalCalc) of              *)
(*    Source/JavaScriptCore/b3/air/AirLiveness.h.  Every variable of it is *)
(*    a function over the AbstractLiveness instances that exist            *)
(*    (GPLiveness, FPLiveness, StackSlotLiveness objects are separate      *)
(*    instances, each with its own adapter, workset and maps).             *)
(* 2. The script of src/unnamed/part_000, which evaluates eval('this') in  *)
(*    functions invoked in different ways.                                 *)
(* 3. ThreadedCompositor and its CompositingRunLoop.                       *)
(***************************************************************************)
EXTENDS Integers, Sequences, FiniteSets, TLC

\* scannedBlocks is a history variable: the blocks the constructor has
\* constructed a LocalCalc for so far.
VARIABLES code, adapter, pc, liveAtTail, liveAtHead, workset, dirtyBlocks,
          changed, blockIndex, instIndex, calcBlock, scannedBlocks

VARIABLES jsInstances, jsGenerators, jsFrame, jsCall, jsResult

\* ThreadedCompositor; unserved, owed and timerLog are history variables:
\* the threads whose scheduleUpdate call has not yet been followed by a
\* start of the update timer; the runs of the update function minus the
\* calls of updateCompleted; and, of the starts of the update timer, their
\* number modulo 2 and how many there were since the last step of
\* updateCompleted or stopUpdates.
VARIABLES compositor, threadPc, m_updateState, updateTimerActive,
          m_clientRendersNextFrame, m_coordinateUpdateCompletionWithClient,
          displayRefreshTimerActive, isScheduled, sceneUpdates, applying,
          framesInFlight, shouldDispatchDisplayRefreshCallback,
          shouldCoordinateUpdateCompletionWithClient, unserved, owed, timerLog

\* The start of the compositing thread: who holds
\* m_initializeRunLoopConditionLock, the threads parked on
\* m_initializeRunLoopCondition, and the members the compositing thread has
\* created.
VARIABLES m_initializeRunLoopConditionLock, m_initializeRunLoopCondition, created

\* The end of the compositing thread: who holds
\* m_terminateRunLoopConditionLock ("free" if nobody), which threads are
\* parked in m_terminateRunLoopCondition, and whether the main loop of the
\* compositing thread's RunLoop is running.
VARIABLES m_terminateRunLoopConditionLock, m_terminateRunLoopCondition, isRunning

\* The work queue: where the caller and the worker thread are, whether the
\* GMainLoop is marked as running, what m_eventLoop, m_eventContext and the
\* lambda of the worker refer to, the sources attached to the context, the
\* number of functions in m_dispatchQueue, which way platformInvalidate
\* took, and what the socket handler was last called with and did.
VARIABLES wqPc, is_running, m_eventLoop, m_eventContext, lambdaEventLoop, attached,
          m_dispatchQueue, quitVia, socketLog

airVars == <<code, adapter, pc, liveAtTail, liveAtHead, workset, dirtyBlocks,
             changed, blockIndex, instIndex, calcBlock, scannedBlocks>>

jsVars == <<jsInstances, jsGenerators, jsFrame, jsCall, jsResult>>

initVars == <<m_initializeRunLoopConditionLock, m_initializeRunLoopCondition, created>>

termVars == <<m_terminateRunLoopConditionLock, m_terminateRunLoopCondition, isRunning>>

tcVars == <<initVars, termVars, compositor, threadPc, m_updateState, updateTimerActive,
            m_clientRendersNextFrame, m_coordinateUpdateCompletionWithClient,
            displayRefreshTimerActive, isScheduled, sceneUpdates, applying,
            framesInFlight, shouldDispatchDisplayRefreshCallback,
            shouldCoordinateUpdateCompletionWithClient, unserved, owed, timerLog>>

wqVars == <<wqPc, is_running, m_eventLoop, m_eventContext, lambdaEventLoop, attached,
           m_dispatchQueue, quitVia, socketLog>>

vars == <<airVars, jsVars, tcVars, wqVars>>

(***************************************************************************)
(* Bounds of the model.                                                    *)
(***************************************************************************)
NumBlocks == 3
NumRegs == 1
NumTmps == 2
NumSlots == 2

Range(s) == {s[i] : i \in 1..Len(s)}

Orders(S) == {s \in [1..Cardinality(S) -> S] : Range(s) = S}

\* unsigned arithmetic, narrowed to 30 bits (TLC integers have 32 bits).
UnsignedModulus == 2^30
UnsignedWrap(n) == n % UnsignedModulus

(***************************************************************************)
(* Things, operands, instructions, blocks.                                 *)
(***************************************************************************)
Adapters == {"GP", "FP", "StackSlot"}

\* Tmp: the internal value, positive for GP and negative for FP; registers
\* come first, then the code's temporaries.
GPTmp(index) == [kind |-> "Tmp", v |-> NumRegs + 1 + index]
FPTmp(index) == [kind |-> "Tmp", v |-> 0 - (NumRegs + 1 + index)]
StackSlot(index) == [kind |-> "Slot", v |-> index]

Roles == {"Use", "LateUse", "Def", "UseDef"}

isEarlyUse(role) == role \in {"Use", "UseDef"}
isLateUse(role) == role = "LateUse"
isDef(role) == role \in {"Def", "UseDef"}

Operand(thing, role, type) == [thing |-> thing, role |-> role, type |-> type]

ThingKind(a) == IF a = "StackSlot" THEN "Slot" ELSE "Tmp"

\* Inst::forEach<Thing>: the operand occurrences whose thing is a Thing.
RECURSIVE ForEach(_, _)
ForEach(inst, a) ==
    IF inst = <<>> THEN <<>>
    ELSE IF Head(inst).thing.kind = ThingKind(a)
         THEN <<Head(inst)>> \o ForEach(Tail(inst), a)
         ELSE ForEach(Tail(inst), a)

(***************************************************************************)
(* Adapters.                                                               *)
(***************************************************************************)
AbsoluteIndexOfTmp(a, tmp) == IF a = "GP" THEN tmp.v ELSE 0 - tmp.v
AbsoluteIndexOfCount(a, n) ==
    AbsoluteIndexOfTmp(a, IF a = "GP" THEN GPTmp(n) ELSE FPTmp(n))
TmpFromAbsoluteIndex(a, index) ==
    [kind |-> "Tmp", v |-> IF a = "GP" THEN index ELSE 0 - index]

TmpMaxIndexCount(a, c) == c.numTmps[a]
TmpMaxIndex(a, c) == AbsoluteIndexOfCount(a, c.numTmps[a])
SlotMaxIndex(c) == UnsignedWrap(Len(c.stackSlots) - 1)
maxIndex(a, c) == IF a = "StackSlot" THEN SlotMaxIndex(c) ELSE TmpMaxIndex(a, c)

acceptsTypeAny(a, type) == TRUE
acceptsType(a, type) == IF a = "StackSlot" THEN TRUE ELSE type = a

TmpValueToIndex(a, tmp) == AbsoluteIndexOfTmp(a, tmp)
SlotValueToIndex(slot) == slot.v
valueToIndex(a, thing) ==
    IF a = "StackSlot" THEN SlotValueToIndex(thing) ELSE TmpValueToIndex(a, thing)

TmpIndexToValue(a, index) == TmpFromAbsoluteIndex(a, index)
SlotIndexToValue(c, index) == c.stackSlots[index + 1]
indexToValue(a, c, index) ==
    IF a = "StackSlot" THEN SlotIndexToValue(c, index) ELSE TmpIndexToValue(a, index)

(***************************************************************************)
(* Code: block slots (possibly null), their instructions and edges.        *)
(***************************************************************************)
BlockIds == 0..(NumBlocks - 1)

NullBlock == [isNull |-> TRUE, insts |-> <<>>, succs |-> {}]

at(c, b) == c.blocks[b]
size(c, b) == Len(c.blocks[b].insts)
last(c, b) == c.blocks[b].insts[Len(c.blocks[b].insts)]
successors(c, b) == c.blocks[b].succs
predecessors(c, b) == {p \in BlockIds : ~c.blocks[p].isNull /\ b \in c.blocks[p].succs}

RECURSIVE SetToSeq(_)
SetToSeq(S) ==
    IF S = {} THEN <<>>
    ELSE LET m == CHOOSE x \in S : \A y \in S : x <= y
         IN <<m>> \o SetToSeq(S \ {m})

(***************************************************************************)
(* WTF containers used by the engine.                                      *)
(***************************************************************************)
\* BitVector::quickSet / quickClear: write the bit, return its old value.
QuickSet(bits, i) == [bits |-> bits \cup {i}, result |-> i \in bits]
QuickClear(bits, i) == [bits |-> bits \ {i}, result |-> i \in bits]

\* IndexSparseSet: the dense vector of the values it holds.
SparseContains(ws, v) == v \in Range(ws)
SparseAdd(ws, v) == IF SparseContains(ws, v) THEN ws ELSE Append(ws, v)
SparseRemove(ws, v) ==
    IF ~SparseContains(ws, v) THEN ws
    ELSE LET pos == CHOOSE i \in 1..Len(ws) : ws[i] = v
             moved == [ws EXCEPT ![pos] = ws[Len(ws)]]
         IN SubSeq(moved, 1, Len(ws) - 1)
SparseClear(ws) == <<>>

RECURSIVE SparseAddAll(_, _)
SparseAddAll(ws, vals) ==
    IF vals = <<>> THEN ws ELSE SparseAddAll(SparseAdd(ws, Head(vals)), Tail(vals))

RECURSIVE SparseRemoveAll(_, _)
SparseRemoveAll(ws, vals) ==
    IF vals = <<>> THEN ws ELSE SparseRemoveAll(SparseRemove(ws, Head(vals)), Tail(vals))

(***************************************************************************)
(* LocalCalc.                                                              *)
(***************************************************************************)
\* The indices of the operands of inst that the adapter accepts in a role.
RECURSIVE IndicesOf(_, _, _)
IndicesOf(ops, a, early) ==
    IF ops = <<>> THEN <<>>
    ELSE LET op == Head(ops)
             hit == acceptsType(a, op.type)
                    /\ (IF early = "def" THEN isDef(op.role)
                        ELSE IF early = "early" THEN isEarlyUse(op.role)
                        ELSE isLateUse(op.role))
         IN (IF hit THEN <<valueToIndex(a, op.thing)>> ELSE <<>>)
            \o IndicesOf(Tail(ops), a, early)

Defs(inst, a) == IndicesOf(ForEach(inst, a), a, "def")
EarlyUses(inst, a) == IndicesOf(ForEach(inst, a), a, "early")
LateUses(inst, a) == IndicesOf(ForEach(inst, a), a, "late")

\* LocalCalc::LocalCalc: the workset holds liveAtTail[block], in the order
\* the hash set happens to iterate.
LocalCalcOrders(tail) == Orders(tail)

LocalCalcInitNoClear(ws, order) == SparseAddAll(ws, order)
LocalCalcInitKeepLeftovers(ws, order) == SparseAddAll(SparseRemoveAll(ws, order), order)
LocalCalcInit(ws, order) == SparseAddAll(SparseClear(ws), order)

\* execute without the kill of the instruction's defs.
executeNoKill(ws, insts, a, i) ==
    LET afterUses == SparseAddAll(ws, EarlyUses(insts[i + 1], a))
    IN IF i # 0
       THEN SparseAddAll(afterUses, LateUses(insts[i], a))
       ELSE afterUses

\* execute with the early uses added before the defs are removed.
executeUsesBeforeDefs(ws, insts, a, i) ==
    LET inst == insts[i + 1]
        afterUses == SparseAddAll(ws, EarlyUses(inst, a))
        afterDefs == SparseRemoveAll(afterUses, Defs(inst, a))
    IN IF i # 0
       THEN SparseAddAll(afterDefs, LateUses(insts[i], a))
       ELSE afterDefs

\* execute with the previous instruction's late uses added first, before
\* the defs are removed.
executeLateUsesFirst(ws, insts, a, i) ==
    LET inst == insts[i + 1]
        afterLate == IF i # 0 THEN SparseAddAll(ws, LateUses(insts[i], a)) ELSE ws
        afterDefs == SparseRemoveAll(afterLate, Defs(inst, a))
    IN SparseAddAll(afterDefs, EarlyUses(inst, a))

\* LocalCalc::execute(instIndex), instIndex counted from 0.
execute(ws, insts, a, i) ==
    LET inst == insts[i + 1]
        afterDefs == SparseRemoveAll(ws, Defs(inst, a))
        afterUses == SparseAddAll(afterDefs, EarlyUses(inst, a))
    IN IF i # 0
       THEN SparseAddAll(afterUses, LateUses(insts[i], a))
       ELSE afterUses

\* execute(hi - 1), ..., execute(lo) from a given workset.
RECURSIVE ScanRange(_, _, _, _, _)
ScanRange(ws, insts, a, hi, lo) ==
    IF hi <= lo THEN ws
    ELSE ScanRange(execute(ws, insts, a, hi - 1), insts, a, hi - 1, lo)

ScanDown(ws, insts, a, n) == ScanRange(ws, insts, a, n, 0)

\* The live-before-first-instruction set of block b under the tail sets.
LiveAtHeadOf(c, a, tails, b) ==
    Range(ScanDown(SetToSeq(tails[b]), c.blocks[b].insts, a, size(c, b)))

(***************************************************************************)
(* The constructor of AbstractLiveness, step by step.                      *)
(***************************************************************************)
\* The seed taken from the terminal's early uses instead of its late uses.
SeedTailEarlyUses(c, a, b) ==
    IF c.blocks[b].isNull THEN {} ELSE Range(EarlyUses(last(c, b), a))

SeedTail(c, a, b) ==
    IF c.blocks[b].isNull THEN {} ELSE Range(LateUses(last(c, b), a))

RECURSIVE AddToTail(_, _, _)
\* The value loop left after the first value.
AddToTailFirstOnly(st, p, vals) ==
    IF vals = <<>> THEN st
    ELSE LET v == Head(vals)
             q == QuickSet(st.dirty, p)
         IN IF v \notin st.tail[p]
            THEN [tail |-> [st.tail EXCEPT ![p] = @ \cup {v}],
                  dirty |-> q.bits,
                  changed |-> st.changed \/ q.result]
            ELSE st

\* The value loop leaving in the predecessor's tail only the offered values.
AddToTailReplacing(st, p, vals) ==
    IF vals = <<>> \/ Range(vals) \subseteq st.tail[p] THEN st
    ELSE LET q == QuickSet(st.dirty, p)
         IN [tail |-> [st.tail EXCEPT ![p] = Range(vals)],
             dirty |-> q.bits,
             changed |-> st.changed \/ q.result]

\* The value loop marking the predecessor dirty whether or not a value was
\* newly added.
AddToTailAlwaysDirty(st, p, vals) ==
    IF vals = <<>> THEN st
    ELSE LET q == QuickSet(st.dirty, p)
         IN [tail |-> [st.tail EXCEPT ![p] = @ \cup Range(vals)],
             dirty |-> q.bits,
             changed |-> st.changed \/ q.result]

AddToTail(st, p, vals) ==
    IF vals = <<>> THEN st
    ELSE LET v == Head(vals)
             isNew == v \notin st.tail[p]
             q == QuickSet(st.dirty, p)
             st1 == IF isNew
                    THEN [tail |-> [st.tail EXCEPT ![p] = @ \cup {v}],
                          dirty |-> q.bits,
                          changed |-> st.changed \/ q.result]
                    ELSE st
         IN AddToTail(st1, p, Tail(vals))

RECURSIVE PropagateTo(_, _, _)
PropagateTo(st, preds, vals) ==
    IF preds = <<>> THEN st
    ELSE PropagateTo(AddToTail(st, Head(preds), vals), Tail(preds), vals)

\* Line 140: the blocks the delta is offered to.
PropagationTargetsSuccessors(c, b) == successors(c, b)
PropagationTargetsAll(c, b) == {p \in BlockIds : ~c.blocks[p].isNull}
PropagationTargets(c, b) == predecessors(c, b)

\* The whole scan result taken as the delta.
DeltaIgnoreHead(ws, head) == ws

\* The delta taken without removing what liveAtHead already records.
DeltaKeepKnown(ws, head) ==
    IF Len(ws) = Len(head) THEN SparseClear(ws) ELSE ws

\* Lines 126-131: drop from the workset what liveAtHead already records.
Delta(ws, head) ==
    IF Len(ws) = Len(head) THEN SparseClear(ws) ELSE SparseRemoveAll(ws, head)

\* Lines 104-150 with the order in which a pass visits the block slots
\* made a parameter (the constructor's order is the reverse of layout
\* order).  The state is the tail sets, the head vectors, the dirty bits
\* and the changed flag.
VisitBlock(c, a, st, b) ==
    IF at(c, b).isNull THEN st
    ELSE LET q == QuickClear(st.dirty, b)
             cleared == [st EXCEPT !.dirty = q.bits]
             scanned == ScanDown(LocalCalcInit(<<>>, SetToSeq(st.tail[b])),
                                 at(c, b).insts, a, size(c, b))
             delta == Delta(scanned, st.head[b])
             offered == PropagateTo([tail |-> cleared.tail, dirty |-> cleared.dirty,
                                     changed |-> cleared.changed],
                                    SetToSeq(PropagationTargets(c, b)), delta)
         IN IF ~q.result THEN cleared
            ELSE IF delta = <<>> THEN cleared
            ELSE [tail |-> offered.tail,
                  head |-> [st.head EXCEPT ![b] = @ \o delta],
                  dirty |-> offered.dirty,
                  changed |-> offered.changed]

RECURSIVE PassOver(_, _, _, _)
PassOver(c, a, st, order) ==
    IF order = <<>> THEN st
    ELSE PassOver(c, a, VisitBlock(c, a, st, Head(order)), Tail(order))

RECURSIVE DoWhileChanged(_, _, _, _, _)
DoWhileChanged(c, a, st, order, passes) ==
    LET after == PassOver(c, a, [st EXCEPT !.changed = FALSE], order)
    IN IF after.changed /\ passes > 1
       THEN DoWhileChanged(c, a, after, order, passes - 1)
       ELSE after

\* No run needs more passes than there are (block, entity) pairs, plus two.
PassLimit == NumBlocks * (NumRegs + NumTmps + NumSlots) + 2

DriverInOrder(c, a, order) ==
    DoWhileChanged(c, a,
                   [tail |-> [b \in BlockIds |-> SeedTail(c, a, b)],
                    head |-> [b \in BlockIds |-> <<>>],
                    dirty |-> BlockIds,
                    changed |-> FALSE],
                   order, PassLimit).tail

ReverseOrder == [i \in 1..NumBlocks |-> NumBlocks - i]

\* The constructor run over a code that has only the block slots in slots,
\* visited from the highest index down.
RECURSIVE Descending(_)
Descending(S) ==
    IF S = {} THEN <<>>
    ELSE LET m == CHOOSE x \in S : \A y \in S : y <= x
         IN <<m>> \o Descending(S \ {m})

DriverOver(c, a, slots) ==
    DoWhileChanged(c, a,
                   [tail |-> [b \in slots |-> SeedTail(c, a, b)],
                    head |-> [b \in slots |-> <<>>],
                    dirty |-> slots,
                    changed |-> FALSE],
                   Descending(slots), PassLimit).tail

(***************************************************************************)
(* The codes the analysis is run on.                                       *)
(***************************************************************************)
\* The things of an adapter's own domain, and things of the other domains.
Own(a, i) ==
    IF a = "GP" THEN GPTmp(i) ELSE IF a = "FP" THEN FPTmp(i) ELSE StackSlot(i)
OwnType(a) == IF a = "FP" THEN "FP" ELSE "GP"

OwnOp(a, i, role) == Operand(Own(a, i), role, OwnType(a))

ForeignOps(a) ==
    IF a = "GP" THEN <<Operand(FPTmp(0), "Use", "FP"), Operand(StackSlot(0), "Def", "FP")>>
    ELSE IF a = "FP" THEN <<Operand(GPTmp(0), "Use", "GP"), Operand(StackSlot(0), "Def", "GP")>>
    ELSE <<Operand(GPTmp(0), "Use", "GP"), Operand(FPTmp(0), "Def", "FP")>>

Nop == <<>>

\* The blocks other than <<Nop>> that a code may hold, written for the
\* domain of adapter a: t is Own(a, 0), u is Own(a, 1).
BlockPalette(a) ==
    { <<<<OwnOp(a, 0, "Def")>>>>,
      <<<<OwnOp(a, 0, "LateUse")>>>>,
      <<<<OwnOp(a, 0, "UseDef")>>>>,
      <<<<OwnOp(a, 0, "Def")>>, <<OwnOp(a, 0, "Use")>>>>,
      <<<<OwnOp(a, 0, "Def")>>, <<OwnOp(a, 0, "LateUse")>>>>,
      <<<<OwnOp(a, 0, "LateUse")>>, <<OwnOp(a, 0, "Def")>>>>,
      <<<<OwnOp(a, 1, "LateUse")>> \o ForeignOps(a) \o <<OwnOp(a, 0, "LateUse")>>>> }

\* Which block slots are null: none, or the slots from some index >= 2 on.
NullSets == {{b \in BlockIds : b >= k} : k \in 2..NumBlocks}

\* The blocks in layout order fall through to the next one; at most one
\* further edge (a back edge, a self loop or a skip) is added.
ChainEdges(nulls) ==
    {e \in BlockIds \X BlockIds :
        /\ e[1] \notin nulls /\ e[2] \notin nulls /\ e[1] < e[2]
        /\ \A m \in BlockIds : (e[1] < m /\ m < e[2]) => m \in nulls}

ExtraEdges(nulls) ==
    {{}} \cup {{e} : e \in {d \in BlockIds \X BlockIds :
                              d[1] \notin nulls /\ d[2] \notin nulls}
                            \ ChainEdges(nulls)}

\* At most n of the blocks are taken from the palette.
Contents(a, nulls, n) ==
    UNION {[P -> BlockPalette(a)] :
              P \in {Q \in SUBSET (BlockIds \ nulls) : Cardinality(Q) <= n}}

MakeCode(edges, nulls, placed) ==
    [blocks |->
        [b \in BlockIds |->
            IF b \in nulls THEN NullBlock
            ELSE [isNull |-> FALSE,
                  insts |-> IF b \in DOMAIN placed THEN placed[b] ELSE <<Nop>>,
                  succs |-> {s \in BlockIds : <<b, s>> \in edges}]],
     numTmps |-> [GP |-> NumTmps, FP |-> NumTmps],
     stackSlots |-> [i \in 1..NumSlots |-> StackSlot(i - 1)]]

(***************************************************************************)
(* The script of src/unnamed/part_000: values, functions, this bindings.   *)
(***************************************************************************)
MaxInstances == 2
MaxGenerators == 2

Undefined == "undefined"
GlobalObject == "global object"
\* The state of a this binding that has not been initialized.
Uninitialized == "uninitialized"

InstanceOfC(k) == <<"C", k>>
GeneratorObject(k) == <<"generator", k>>

ReferenceError == "ReferenceError: Cannot access uninitialized variable."
TypeError == "TypeError: function is not a constructor (evaluating 'new c.generator()')"

Normal(value) == [type |-> "normal", value |-> value]
Throw(error) == [type |-> "throw", value |-> error]
Pending == [type |-> "pending", value |-> Undefined]

NoFrame == [fn |-> "none"]
NoCall == [expr |-> "none", arg |-> Undefined]

\* The bodies of the script's functions, statement by statement.
Body(fn) ==
    IF fn = "gen" THEN <<"eval this", "yield">>
    ELSE IF fn = "function" THEN <<"eval this", "eval this", "end">>
    ELSE IF fn = "A" THEN <<"eval this", "return">>
    ELSE <<"eval this", "yield">>

\* What kind of function each one is.
KindOf(fn) ==
    IF fn = "gen" THEN "generator function"
    ELSE IF fn = "function" THEN "function"
    ELSE IF fn = "A" THEN "derived constructor"
    ELSE IF fn = "C" THEN "base constructor"
    ELSE "generator method"

\* The this binding a function starts with: a derived-class constructor and
\* a generator function invoked with new start with it uninitialized, a
\* base constructor with the new object, a call with its receiver (the
\* global object when there is none, the functions being sloppy).
ThisBindingFor(kind, how, receiver, fresh) ==
    IF how = "new"
    THEN IF kind = "base constructor" THEN fresh ELSE Uninitialized
    ELSE IF receiver = Undefined THEN GlobalObject ELSE receiver

Frame(fn, this, gen) ==
    [fn |-> fn, ip |-> 1, this |-> this, value |-> Undefined, gen |-> gen]

NoScript ==
    /\ jsInstances = 0
    /\ jsGenerators = <<>>
    /\ jsFrame = NoFrame
    /\ jsCall = NoCall
    /\ jsResult = Pending

\* The threads of a ThreadedCompositor.
Threads == {"main", "compositing"}

\* The members runCompositingThread creates (lines 833-837).
Members == {"m_compositingRunLoop", "m_scene", "m_viewportController"}

\* The state CompositingRunLoop and ThreadedCompositor are constructed with
\* (lines 511-517 and 587-599), for a compositor in lifecycle state life.
CompositorIs(life) ==
    /\ compositor = life
    /\ threadPc = [t \in Threads |-> "idle"]
    /\ m_updateState = "Completed"
    /\ updateTimerActive = FALSE
    /\ m_clientRendersNextFrame = FALSE
    /\ m_coordinateUpdateCompletionWithClient = FALSE
    /\ displayRefreshTimerActive = FALSE
    /\ isScheduled = FALSE
    /\ sceneUpdates = <<>>
    /\ applying = <<>>
    /\ framesInFlight = 0
    /\ shouldDispatchDisplayRefreshCallback = FALSE
    /\ shouldCoordinateUpdateCompletionWithClient = FALSE
    /\ unserved = {}
    /\ owed = 0
    /\ timerLog = [parity |-> 0, starts |-> 0]
    /\ m_initializeRunLoopConditionLock = "free"
    /\ m_initializeRunLoopCondition = {}
    /\ created = IF life \in {"running", "invalidated"} THEN Members ELSE {}
    /\ m_terminateRunLoopConditionLock = "free"
    /\ m_terminateRunLoopCondition = {}
    /\ isRunning = (life \in {"running", "invalidated"})

NoCompositor == CompositorIs("none")

\* The work queue after platformInitialize (lines 38-67): context and loop
\* exist, the thread is created with a lambda that refers to the loop, the
\* loop does not run yet and nothing is queued.  "none": no work queue.
WorkQueueIs(life) ==
    /\ wqPc = [caller |-> IF life = "none" THEN "none" ELSE "idle", worker |-> life]
    /\ is_running = FALSE
    /\ m_eventLoop = IF life = "none" THEN "null" ELSE "loop"
    /\ m_eventContext = IF life = "none" THEN "null" ELSE "context"
    /\ lambdaEventLoop = IF life = "none" THEN "null" ELSE "loop"
    /\ attached = {}
    /\ m_dispatchQueue = 0
    /\ quitVia = "none"
    /\ socketLog = [registration |-> 0, events |-> 0, condition |-> {},
                    called |-> "none", closeCalled |-> FALSE,
                    functionAfterClose |-> FALSE]

NoWorkQueue == WorkQueueIs("none")

(***************************************************************************)
(* Initial state: the engines are constructed (member initializers of      *)
(* lines 83-86 done), the constructor body has not run yet.                *)
(***************************************************************************)
NoBlock == 0 - 1

EnginesAre(codes, adapters) ==
    /\ code = codes
    /\ adapter = adapters
    /\ pc = [e \in DOMAIN codes |-> "seed"]
    /\ liveAtTail = [e \in DOMAIN codes |-> [b \in BlockIds |-> {}]]
    /\ liveAtHead = [e \in DOMAIN codes |-> [b \in BlockIds |-> <<>>]]
    /\ workset = [e \in DOMAIN codes |-> <<>>]
    /\ dirtyBlocks = [e \in DOMAIN codes |-> {}]
    /\ changed = [e \in DOMAIN codes |-> FALSE]
    /\ blockIndex = [e \in DOMAIN codes |-> 0]
    /\ instIndex = [e \in DOMAIN codes |-> 0]
    /\ calcBlock = [e \in DOMAIN codes |-> NoBlock]
    /\ scannedBlocks = [e \in DOMAIN codes |-> {}]

InitEngines(codes, adapters) ==
    EnginesAre(codes, adapters) /\ NoScript /\ NoCompositor /\ NoWorkQueue

\* One GPLiveness over a code in which at most two blocks are taken from the
\* palette.
Init ==
    \E nulls \in NullSets :
        \E extra \in ExtraEdges(nulls), placed \in Contents("GP", nulls, 2) :
            InitEngines(<<MakeCode(ChainEdges(nulls) \cup extra, nulls, placed)>>,
                        <<"GP">>)

\* Two engines of the same domain, constructed one after the other, over a
\* code and a code that differs from it at most in operands of the other
\* domains.
BelongsTo(thing, a) ==
    IF a = "StackSlot" THEN thing.kind = "Slot"
    ELSE thing.kind = "Tmp" /\ (IF a = "GP" THEN thing.v > 0 ELSE thing.v < 0)

StripInst(inst, a) == SelectSeq(inst, LAMBDA op : BelongsTo(op.thing, a))
PolluteInst(inst, a) == ForeignOps(a) \o inst

VariantInst(v, inst, a) ==
    IF v = "strip" THEN StripInst(inst, a)
    ELSE IF v = "pollute" THEN PolluteInst(inst, a)
    ELSE inst

Variant(v, c, a) ==
    [c EXCEPT !.blocks =
        [b \in BlockIds |->
            [c.blocks[b] EXCEPT !.insts =
                [i \in 1..Len(c.blocks[b].insts) |->
                    VariantInst(v, c.blocks[b].insts[i], a)]]]]

Variants == {"same", "strip", "pollute"}

TwinNulls == {{}, {1}}

TwinExtra(nulls) ==
    LET live == BlockIds \ nulls
        lo == CHOOSE x \in live : \A y \in live : x <= y
        hi == CHOOSE x \in live : \A y \in live : y <= x
    IN {{}, {<<hi, lo>>}}

TwinInit ==
    \E a \in Adapters, nulls \in TwinNulls, v \in Variants :
        \E extra \in TwinExtra(nulls), placed \in Contents(a, nulls, 1) :
            LET c == MakeCode(ChainEdges(nulls) \cup extra, nulls, placed)
            IN InitEngines(<<c, Variant(v, c, a)>>, <<a, a>>)

\* One GPLiveness over a code whose slot 1 is null or not, with at most one
\* back edge.
GapInit ==
    \E nulls \in TwinNulls :
        \E extra \in TwinExtra(nulls), placed \in Contents("GP", nulls, 2) :
            InitEngines(<<MakeCode(ChainEdges(nulls) \cup extra, nulls, placed)>>,
                        <<"GP">>)

\* One StackSlotLiveness over a code with any number of stack slots from
\* none to NumSlots; a block can only name slots the code has.
SlotCounts == 0..NumSlots

SlotPalette(n) ==
    {blk \in BlockPalette("StackSlot") :
        \A i \in 1..Len(blk) : \A k \in 1..Len(blk[i]) :
            blk[i][k].thing.kind = "Slot" => blk[i][k].thing.v < n}

SlotContents(n, nulls) ==
    UNION {[P -> SlotPalette(n)] :
              P \in {Q \in SUBSET (BlockIds \ nulls) : Cardinality(Q) <= 1}}

WithSlots(c, n) == [c EXCEPT !.stackSlots = [i \in 1..n |-> StackSlot(i - 1)]]

SlotInit ==
    \E n \in SlotCounts, nulls \in NullSets :
        \E extra \in ExtraEdges(nulls), placed \in SlotContents(n, nulls) :
            InitEngines(
                <<WithSlots(MakeCode(ChainEdges(nulls) \cup extra, nulls, placed), n)>>,
                <<"StackSlot">>)

(***************************************************************************)
(* Actions.                                                                *)
(***************************************************************************)
\* The seed that marks dirty only the blocks whose tail it seeded.
SeedDirtyWhereSeeded(e) ==
    /\ pc[e] = "seed"
    /\ \A d \in DOMAIN pc : d < e => pc[d] = "done"
    /\ liveAtTail' = [liveAtTail EXCEPT
                        ![e] = [b \in BlockIds |-> SeedTail(code[e], adapter[e], b)]]
    /\ dirtyBlocks' = [dirtyBlocks EXCEPT
                         ![e] = {b \in BlockIds : SeedTail(code[e], adapter[e], b) # {}}]
    /\ pc' = [pc EXCEPT ![e] = "pass"]
    /\ UNCHANGED <<wqVars, jsVars, tcVars, scannedBlocks, code, adapter, liveAtHead, workset, changed,
                   blockIndex, instIndex, calcBlock>>

\* Lines 88-102: seed liveAtTail with the terminals' late uses, mark every
\* block index dirty.  The constructor is one synchronous call: a later
\* engine is constructed after the earlier ones have returned.
Seed(e) ==
    /\ pc[e] = "seed"
    /\ \A d \in DOMAIN pc : d < e => pc[d] = "done"
    /\ liveAtTail' = [liveAtTail EXCEPT
                        ![e] = [b \in BlockIds |-> SeedTail(code[e], adapter[e], b)]]
    /\ dirtyBlocks' = [dirtyBlocks EXCEPT ![e] = BlockIds]
    /\ pc' = [pc EXCEPT ![e] = "pass"]
    /\ UNCHANGED <<wqVars, jsVars, tcVars, scannedBlocks, code, adapter, liveAtHead, workset, changed, blockIndex,
                   instIndex, calcBlock>>

\* A pass that starts without resetting changed.
BeginPassKeepChanged(e) ==
    /\ pc[e] = "pass"
    /\ blockIndex' = [blockIndex EXCEPT ![e] = NumBlocks]
    /\ pc' = [pc EXCEPT ![e] = "visit"]
    /\ UNCHANGED <<wqVars, jsVars, tcVars, scannedBlocks, code, adapter, liveAtTail, liveAtHead, workset, dirtyBlocks,
                   changed, instIndex, calcBlock>>

\* Lines 105-108: start of one pass of the do/while loop.
BeginPass(e) ==
    /\ pc[e] = "pass"
    /\ changed' = [changed EXCEPT ![e] = FALSE]
    /\ blockIndex' = [blockIndex EXCEPT ![e] = NumBlocks]
    /\ pc' = [pc EXCEPT ![e] = "visit"]
    /\ UNCHANGED <<wqVars, jsVars, tcVars, scannedBlocks, code, adapter, liveAtTail, liveAtHead, workset, dirtyBlocks,
                   instIndex, calcBlock>>

\* A null slot ending the pass instead of being skipped.
SkipNullEndsPass(e) ==
    /\ pc[e] = "visit"
    /\ blockIndex[e] > 0
    /\ at(code[e], blockIndex[e] - 1).isNull
    /\ blockIndex' = [blockIndex EXCEPT ![e] = 0]
    /\ UNCHANGED <<wqVars, jsVars, tcVars, scannedBlocks, code, adapter, pc, liveAtTail, liveAtHead,
                   workset, dirtyBlocks, changed, instIndex, calcBlock>>

\* Lines 108-111: the slot holds no block.
SkipNull(e) ==
    /\ pc[e] = "visit"
    /\ blockIndex[e] > 0
    /\ at(code[e], blockIndex[e] - 1).isNull
    /\ blockIndex' = [blockIndex EXCEPT ![e] = @ - 1]
    /\ UNCHANGED <<wqVars, jsVars, tcVars, scannedBlocks, code, adapter, pc, liveAtTail, liveAtHead, workset,
                   dirtyBlocks, changed, instIndex, calcBlock>>

\* Lines 113-114: the block is not dirty.
SkipClean(e) ==
    /\ pc[e] = "visit"
    /\ blockIndex[e] > 0
    /\ ~at(code[e], blockIndex[e] - 1).isNull
    /\ ~QuickClear(dirtyBlocks[e], blockIndex[e] - 1).result
    /\ dirtyBlocks' = [dirtyBlocks EXCEPT ![e] = QuickClear(@, blockIndex[e] - 1).bits]
    /\ blockIndex' = [blockIndex EXCEPT ![e] = @ - 1]
    /\ UNCHANGED <<wqVars, jsVars, tcVars, scannedBlocks, code, adapter, pc, liveAtTail, liveAtHead, workset,
                   changed, instIndex, calcBlock>>

\* Lines 113-116: clear the dirty bit and construct the LocalCalc.
StartScan(e) ==
    /\ pc[e] = "visit"
    /\ blockIndex[e] > 0
    /\ ~at(code[e], blockIndex[e] - 1).isNull
    /\ QuickClear(dirtyBlocks[e], blockIndex[e] - 1).result
    /\ dirtyBlocks' = [dirtyBlocks EXCEPT ![e] = QuickClear(@, blockIndex[e] - 1).bits]
    /\ blockIndex' = [blockIndex EXCEPT ![e] = @ - 1]
    /\ \E order \in LocalCalcOrders(liveAtTail[e][blockIndex[e] - 1]) :
          workset' = [workset EXCEPT ![e] = LocalCalcInit(@, order)]
    /\ calcBlock' = [calcBlock EXCEPT ![e] = blockIndex[e] - 1]
    /\ instIndex' = [instIndex EXCEPT ![e] = size(code[e], blockIndex[e] - 1)]
    /\ pc' = [pc EXCEPT ![e] = "scan"]
    /\ scannedBlocks' = [scannedBlocks EXCEPT ![e] = @ \cup {blockIndex[e] - 1}]
    /\ UNCHANGED <<wqVars, jsVars, tcVars, code, adapter, liveAtTail, liveAtHead, changed>>

\* Lines 117-118: one localCalc.execute(instIndex) of the driver's scan.
ScanExecute(e) ==
    /\ pc[e] = "scan"
    /\ instIndex[e] > 0
    /\ workset' = [workset EXCEPT
                     ![e] = execute(@, at(code[e], calcBlock[e]).insts,
                                    adapter[e], instIndex[e] - 1)]
    /\ instIndex' = [instIndex EXCEPT ![e] = @ - 1]
    /\ UNCHANGED <<wqVars, jsVars, tcVars, scannedBlocks, code, adapter, pc, liveAtTail, liveAtHead, dirtyBlocks,
                   changed, blockIndex, calcBlock>>

\* Lines 120-148 with the append to liveAtHead (lines 136-138) left out.
PropagateNoAppend(e) ==
    /\ pc[e] = "scan"
    /\ instIndex[e] = 0
    /\ LET b == calcBlock[e]
           delta == Delta(workset[e], liveAtHead[e][b])
           st == PropagateTo([tail |-> liveAtTail[e], dirty |-> dirtyBlocks[e],
                              changed |-> changed[e]],
                             SetToSeq(PropagationTargets(code[e], b)), delta)
       IN /\ workset' = [workset EXCEPT ![e] = delta]
          /\ IF delta = <<>>
             THEN UNCHANGED <<liveAtTail, dirtyBlocks, changed>>
             ELSE /\ liveAtTail' = [liveAtTail EXCEPT ![e] = st.tail]
                  /\ dirtyBlocks' = [dirtyBlocks EXCEPT ![e] = st.dirty]
                  /\ changed' = [changed EXCEPT ![e] = st.changed]
    /\ calcBlock' = [calcBlock EXCEPT ![e] = NoBlock]
    /\ pc' = [pc EXCEPT ![e] = "visit"]
    /\ UNCHANGED <<wqVars, jsVars, tcVars, scannedBlocks, code, adapter, liveAtHead, blockIndex, instIndex>>

\* Lines 120-148: the delta against liveAtHead, its append, and the
\* propagation to the predecessors.
Propagate(e) ==
    /\ pc[e] = "scan"
    /\ instIndex[e] = 0
    /\ LET b == calcBlock[e]
           delta == Delta(workset[e], liveAtHead[e][b])
           st == PropagateTo([tail |-> liveAtTail[e], dirty |-> dirtyBlocks[e],
                              changed |-> changed[e]],
                             SetToSeq(PropagationTargets(code[e], b)), delta)
       IN /\ workset' = [workset EXCEPT ![e] = delta]
          /\ IF delta = <<>>
             THEN UNCHANGED <<liveAtHead, liveAtTail, dirtyBlocks, changed>>
             ELSE /\ liveAtHead' = [liveAtHead EXCEPT ![e][b] = @ \o delta]
                  /\ liveAtTail' = [liveAtTail EXCEPT ![e] = st.tail]
                  /\ dirtyBlocks' = [dirtyBlocks EXCEPT ![e] = st.dirty]
                  /\ changed' = [changed EXCEPT ![e] = st.changed]
    /\ calcBlock' = [calcBlock EXCEPT ![e] = NoBlock]
    /\ pc' = [pc EXCEPT ![e] = "visit"]
    /\ UNCHANGED <<wqVars, jsVars, tcVars, scannedBlocks, code, adapter, blockIndex, instIndex>>

\* Line 150, changed is true: another pass.
Repeat(e) ==
    /\ pc[e] = "visit"
    /\ blockIndex[e] = 0
    /\ changed[e]
    /\ pc' = [pc EXCEPT ![e] = "pass"]
    /\ UNCHANGED <<wqVars, jsVars, tcVars, scannedBlocks, code, adapter, liveAtTail, liveAtHead, workset, dirtyBlocks,
                   changed, blockIndex, instIndex, calcBlock>>

\* Lines 150-153, changed is false: the loop exits, m_liveAtHead.clear(),
\* the constructor returns.
Finish(e) ==
    /\ pc[e] = "visit"
    /\ blockIndex[e] = 0
    /\ ~changed[e]
    /\ liveAtHead' = [liveAtHead EXCEPT ![e] = [b \in BlockIds |-> <<>>]]
    /\ pc' = [pc EXCEPT ![e] = "done"]
    /\ UNCHANGED <<wqVars, jsVars, tcVars, scannedBlocks, code, adapter, liveAtTail, workset, dirtyBlocks, changed,
                   blockIndex, instIndex, calcBlock>>

\* A LocalCalc constructor that moves the tail set into the workset.
NewLocalCalcTaking(e, b) ==
    /\ pc[e] = "done"
    /\ ~at(code[e], b).isNull
    /\ \E order \in LocalCalcOrders(liveAtTail[e][b]) :
          workset' = [workset EXCEPT ![e] = LocalCalcInit(@, order)]
    /\ liveAtTail' = [liveAtTail EXCEPT ![e][b] = {}]
    /\ calcBlock' = [calcBlock EXCEPT ![e] = b]
    /\ instIndex' = [instIndex EXCEPT ![e] = size(code[e], b)]
    /\ UNCHANGED <<wqVars, jsVars, tcVars, scannedBlocks, code, adapter, pc, liveAtHead, dirtyBlocks, changed, blockIndex>>

\* A consumer constructs a LocalCalc for a block (lines 158-167).
NewLocalCalc(e, b) ==
    /\ pc[e] = "done"
    /\ ~at(code[e], b).isNull
    /\ \E order \in LocalCalcOrders(liveAtTail[e][b]) :
          workset' = [workset EXCEPT ![e] = LocalCalcInit(@, order)]
    /\ calcBlock' = [calcBlock EXCEPT ![e] = b]
    /\ instIndex' = [instIndex EXCEPT ![e] = size(code[e], b)]
    /\ UNCHANGED <<wqVars, jsVars, tcVars, scannedBlocks, code, adapter, pc, liveAtTail, liveAtHead, dirtyBlocks,
                   changed, blockIndex>>

\* The consumer runs its LocalCalc one instruction further back
\* (lines 213-240).
ConsumerExecute(e) ==
    /\ pc[e] = "done"
    /\ calcBlock[e] # NoBlock
    /\ instIndex[e] > 0
    /\ workset' = [workset EXCEPT
                     ![e] = execute(@, at(code[e], calcBlock[e]).insts,
                                    adapter[e], instIndex[e] - 1)]
    /\ instIndex' = [instIndex EXCEPT ![e] = @ - 1]
    /\ UNCHANGED <<wqVars, jsVars, tcVars, scannedBlocks, code, adapter, pc, liveAtTail, liveAtHead, dirtyBlocks,
                   changed, blockIndex, calcBlock>>

Engines == DOMAIN pc

Next ==
    \/ \E e \in Engines : Seed(e)
    \/ \E e \in Engines : BeginPass(e)
    \/ \E e \in Engines : SkipNull(e)
    \/ \E e \in Engines : SkipClean(e)
    \/ \E e \in Engines : StartScan(e)
    \/ \E e \in Engines : ScanExecute(e)
    \/ \E e \in Engines : Propagate(e)
    \/ \E e \in Engines : Repeat(e)
    \/ \E e \in Engines : Finish(e)
    \/ \E e \in Engines, b \in BlockIds : NewLocalCalc(e, b)
    \/ \E e \in Engines : ConsumerExecute(e)

Spec == Init /\ [][Next]_vars

\* The driver's steps alone: the constructor runs to completion in one call.
Construct ==
    \E e \in Engines :
        \/ Seed(e) \/ BeginPass(e) \/ SkipNull(e) \/ SkipClean(e) \/ StartScan(e)
        \/ ScanExecute(e) \/ Propagate(e) \/ Repeat(e) \/ Finish(e)

FairSpec == Init /\ [][Next]_vars /\ WF_vars(Construct)

TwinSpec == TwinInit /\ [][Next]_vars

SlotSpec == SlotInit /\ [][Next]_vars

GapFairSpec == GapInit /\ [][Next]_vars /\ WF_vars(Construct)

(***************************************************************************)
(* The script of src/unnamed/part_000.  Its top level constructs and calls *)
(* the functions; the functions run statement by statement; jsCall is the  *)
(* call expression being evaluated and jsResult its completion.            *)
(***************************************************************************)
ScriptIdle == jsFrame = NoFrame

Instances == {InstanceOfC(k) : k \in 1..jsInstances}

CallOf(expr, arg) == [expr |-> expr, arg |-> arg]

\* new C() (lines 56 and 62).
NewC ==
    /\ ScriptIdle
    /\ jsInstances < MaxInstances
    /\ jsInstances' = jsInstances + 1
    /\ jsCall' = CallOf("new C()", Undefined)
    /\ jsResult' = Normal(ThisBindingFor(KindOf("C"), "new", Undefined,
                                         InstanceOfC(jsInstances + 1)))
    /\ UNCHANGED <<wqVars, airVars, tcVars, jsGenerators, jsFrame>>

\* A generator object: its function, the this binding its body will run
\* with, how the script obtained it and from which receiver.
Generator(fn, how, receiver) ==
    [fn |-> fn, this |-> ThisBindingFor(KindOf(fn), how, receiver, Undefined),
     state |-> "suspendedStart", how |-> how, receiver |-> receiver]

\* var g = new gen() (line 25).
NewGen ==
    /\ ScriptIdle
    /\ Len(jsGenerators) < MaxGenerators
    /\ jsGenerators' = Append(jsGenerators, Generator("gen", "new", Undefined))
    /\ jsCall' = CallOf("new gen()", Undefined)
    /\ jsResult' = Normal(GeneratorObject(Len(jsGenerators) + 1))
    /\ UNCHANGED <<wqVars, airVars, tcVars, jsInstances, jsFrame>>

\* (function() { ... }()) (lines 32-35).
CallFunction ==
    /\ ScriptIdle
    /\ jsFrame' = Frame("function",
                        ThisBindingFor(KindOf("function"), "call", Undefined, Undefined), 0)
    /\ jsCall' = CallOf("function()", Undefined)
    /\ jsResult' = Pending
    /\ UNCHANGED <<wqVars, airVars, tcVars, jsInstances, jsGenerators>>

\* new A() where A is declared without its extends clause.
NewABase ==
    /\ ScriptIdle
    /\ jsFrame' = Frame("A", ThisBindingFor("base constructor", "new", Undefined,
                                            "instance of A"), 0)
    /\ jsCall' = CallOf("new A()", Undefined)
    /\ jsResult' = Pending
    /\ UNCHANGED <<wqVars, airVars, tcVars, jsInstances, jsGenerators>>

\* new A(), A being class A extends B (lines 37-45).
NewA ==
    /\ ScriptIdle
    /\ jsFrame' = Frame("A", ThisBindingFor(KindOf("A"), "new", Undefined,
                                            "instance of A"), 0)
    /\ jsCall' = CallOf("new A()", Undefined)
    /\ jsResult' = Pending
    /\ UNCHANGED <<wqVars, airVars, tcVars, jsInstances, jsGenerators>>

\* new c.generator() (line 57): a generator method is not a constructor.
NewCGenerator(c) ==
    /\ ScriptIdle
    /\ jsCall' = CallOf("new c.generator()", c)
    /\ jsResult' = Throw(TypeError)
    /\ UNCHANGED <<wqVars, airVars, tcVars, jsInstances, jsGenerators, jsFrame>>

\* let g = c.generator() (line 63).
CallCGenerator(c) ==
    /\ ScriptIdle
    /\ Len(jsGenerators) < MaxGenerators
    /\ jsGenerators' = Append(jsGenerators, Generator("generator", "call", c))
    /\ jsCall' = CallOf("c.generator()", c)
    /\ jsResult' = Normal(GeneratorObject(Len(jsGenerators) + 1))
    /\ UNCHANGED <<wqVars, airVars, tcVars, jsInstances, jsFrame>>

\* g.next() on a generator that has not started (lines 27 and 64): its
\* body starts to run with the generator's this binding.
GNext(g) ==
    /\ ScriptIdle
    /\ jsGenerators[g].state = "suspendedStart"
    /\ jsGenerators' = [jsGenerators EXCEPT ![g].state = "executing"]
    /\ jsFrame' = Frame(jsGenerators[g].fn, jsGenerators[g].this, g)
    /\ jsCall' = CallOf("g.next()", GeneratorObject(g))
    /\ jsResult' = Pending
    /\ UNCHANGED <<wqVars, airVars, tcVars, jsInstances>>

\* The frame is left: a generator's body is suspended or completed.
LeaveFrame(state) ==
    /\ jsFrame' = NoFrame
    /\ jsGenerators' = IF jsFrame.gen = 0 THEN jsGenerators
                       ELSE [jsGenerators EXCEPT ![jsFrame.gen].state = state]

\* eval('this') (lines 22, 33, 34, 40, 51): the this binding of the
\* enclosing function as it is now; reading it while it is uninitialized
\* throws.
EvalThis ==
    /\ ~ScriptIdle
    /\ Body(jsFrame.fn)[jsFrame.ip] = "eval this"
    /\ IF jsFrame.this = Uninitialized
       THEN /\ LeaveFrame("completed")
            /\ jsResult' = Throw(ReferenceError)
       ELSE /\ jsFrame' = [jsFrame EXCEPT !.value = jsFrame.this, !.ip = @ + 1]
            /\ UNCHANGED <<jsGenerators, jsResult>>
    /\ UNCHANGED <<wqVars, airVars, tcVars, jsInstances, jsCall>>

\* yield <value> (lines 22, 51), return <value> (line 40), or the end of
\* the function body (line 35): the call expression completes.
FinishBody ==
    /\ ~ScriptIdle
    /\ Body(jsFrame.fn)[jsFrame.ip] \in {"yield", "return", "end"}
    /\ LeaveFrame(IF Body(jsFrame.fn)[jsFrame.ip] = "yield"
                  THEN "suspendedYield" ELSE "completed")
    /\ jsResult' = Normal(IF Body(jsFrame.fn)[jsFrame.ip] = "end"
                          THEN Undefined ELSE jsFrame.value)
    /\ UNCHANGED <<wqVars, airVars, tcVars, jsInstances, jsCall>>

ScriptInit == EnginesAre(<<>>, <<>>) /\ NoScript /\ NoCompositor /\ NoWorkQueue

ScriptNext ==
    \/ NewC
    \/ NewGen
    \/ CallFunction
    \/ NewA
    \/ \E c \in Instances : NewCGenerator(c)
    \/ \E c \in Instances : CallCGenerator(c)
    \/ \E g \in 1..Len(jsGenerators) : GNext(g)
    \/ EvalThis
    \/ FinishBody

ScriptSpec == ScriptInit /\ [][ScriptNext]_vars

(***************************************************************************)
(* ThreadedCompositor and CompositingRunLoop.  The main thread and the     *)
(* compositing thread each run one task of their run loop at a time;       *)
(* threadPc is where each of them is, and every step is one atomic         *)
(* operation (a load, a store, a compare-exchange, a timer start).         *)
(***************************************************************************)
MaxUpdates == 1
MaxFrames == 1

Running == compositor = "running"
\* The compositing thread still serves its run loop.
Serving == compositor \in {"running", "invalidated"}

At(t, where) == threadPc[t] = where
Goto(t, where) == threadPc' = [threadPc EXCEPT ![t] = where]

\* owed is kept within a range that the runs never leave on the high side
\* and that keeps a surplus of updateCompleted calls visible on the low
\* side.
Clip(n) == IF n < 0 - 1 THEN 0 - 1 ELSE IF n > MaxFrames + 1 THEN MaxFrames + 1 ELSE n

\* m_updateTimer.startOneShot(0): every scheduleUpdate call begun so far
\* is now followed by a timer start.
StartUpdateTimer ==
    /\ updateTimerActive' = TRUE
    /\ unserved' = {}
    /\ timerLog' = [parity |-> 1 - timerLog.parity,
                    starts |-> IF timerLog.starts < 2 THEN timerLog.starts + 1 ELSE 2]

\* A step of updateCompleted or of stopUpdates.
NoStartsSince == timerLog' = [timerLog EXCEPT !.starts = 0]

\* setNeedsDisplay on the main thread (lines 607-610), updateViewport and
\* scheduleDisplayImmediately on the compositing thread (lines 671-674,
\* 744-747): the call of scheduleUpdate begins.
CallScheduleUpdate(t) ==
    /\ At(t, "idle")
    /\ IF t = "main" THEN Running ELSE Serving
    /\ Goto(t, "scheduleUpdate")
    /\ unserved' = unserved \cup {t}
    /\ UNCHANGED <<wqVars, airVars, jsVars, termVars, initVars, timerLog, compositor, m_updateState, updateTimerActive,
                   m_clientRendersNextFrame, m_coordinateUpdateCompletionWithClient,
                   displayRefreshTimerActive, isScheduled, sceneUpdates, applying,
                   framesInFlight, shouldDispatchDisplayRefreshCallback,
                   shouldCoordinateUpdateCompletionWithClient, owed>>

\* updateSceneState on the main thread (lines 789-805): the update is
\* appended to the scene's queue, then setNeedsDisplay is called.
UpdateSceneState(coordinateUpdate) ==
    /\ At("main", "idle")
    /\ Running
    /\ Len(sceneUpdates) < MaxUpdates
    /\ sceneUpdates' = Append(sceneUpdates, coordinateUpdate)
    /\ Goto("main", "scheduleUpdate")
    /\ unserved' = unserved \cup {"main"}
    /\ UNCHANGED <<wqVars, airVars, jsVars, termVars, initVars, timerLog, compositor, m_updateState, updateTimerActive,
                   m_clientRendersNextFrame, m_coordinateUpdateCompletionWithClient,
                   displayRefreshTimerActive, isScheduled, applying,
                   framesInFlight, shouldDispatchDisplayRefreshCallback,
                   shouldCoordinateUpdateCompletionWithClient, owed>>

\* scheduleUpdate, lines 531-534: compareExchangeStrong(Completed,
\* InProgress); on success the timer is started and the call returns.
ScheduleUpdateFirst(t) ==
    /\ At(t, "scheduleUpdate")
    /\ IF m_updateState = "Completed"
       THEN /\ m_updateState' = "InProgress"
            /\ StartUpdateTimer
            /\ Goto(t, "idle")
       ELSE /\ Goto(t, "scheduleUpdate2")
            /\ UNCHANGED <<m_updateState, updateTimerActive, unserved, timerLog>>
    /\ UNCHANGED <<wqVars, airVars, jsVars, termVars, initVars, compositor,
                   m_clientRendersNextFrame, m_coordinateUpdateCompletionWithClient,
                   displayRefreshTimerActive, isScheduled, sceneUpdates, applying,
                   framesInFlight, shouldDispatchDisplayRefreshCallback,
                   shouldCoordinateUpdateCompletionWithClient, owed>>

\* scheduleUpdate, lines 536-537: compareExchangeStrong(InProgress,
\* PendingAfterCompletion); the call returns whatever the outcome.
ScheduleUpdateSecond(t) ==
    /\ At(t, "scheduleUpdate2")
    /\ m_updateState' = IF m_updateState = "InProgress"
                        THEN "PendingAfterCompletion" ELSE m_updateState
    /\ Goto(t, "idle")
    /\ UNCHANGED <<wqVars, airVars, jsVars, termVars, initVars, timerLog, compositor, updateTimerActive,
                   m_clientRendersNextFrame, m_coordinateUpdateCompletionWithClient,
                   displayRefreshTimerActive, isScheduled, sceneUpdates, applying,
                   framesInFlight, shouldDispatchDisplayRefreshCallback,
                   shouldCoordinateUpdateCompletionWithClient, unserved, owed>>

\* updateCompleted, lines 548-549: compareExchangeStrong(InProgress,
\* Completed).
UpdateCompletedFirst(t) ==
    /\ At(t, "updateCompleted")
    /\ IF m_updateState = "InProgress"
       THEN m_updateState' = "Completed" /\ Goto(t, "idle")
       ELSE UNCHANGED m_updateState /\ Goto(t, "updateCompleted2")
    /\ NoStartsSince
    /\ UNCHANGED <<wqVars, airVars, jsVars, termVars, initVars, compositor, updateTimerActive,
                   m_clientRendersNextFrame, m_coordinateUpdateCompletionWithClient,
                   displayRefreshTimerActive, isScheduled, sceneUpdates, applying,
                   framesInFlight, shouldDispatchDisplayRefreshCallback,
                   shouldCoordinateUpdateCompletionWithClient, unserved, owed>>

\* updateCompleted, lines 551-556: compareExchangeStrong(
\* PendingAfterCompletion, InProgress) and the timer start; when it fails
\* too, control is at ASSERT_NOT_REACHED.
UpdateCompletedSecond(t) ==
    /\ At(t, "updateCompleted2")
    /\ IF m_updateState = "PendingAfterCompletion"
       THEN /\ m_updateState' = "InProgress"
            /\ updateTimerActive' = TRUE
            /\ unserved' = {}
            /\ timerLog' = [parity |-> 1 - timerLog.parity, starts |-> 1]
            /\ Goto(t, "idle")
       ELSE /\ Goto(t, "assertNotReached")
            /\ NoStartsSince
            /\ UNCHANGED <<m_updateState, updateTimerActive, unserved>>
    /\ UNCHANGED <<wqVars, airVars, jsVars, termVars, initVars, compositor,
                   m_clientRendersNextFrame, m_coordinateUpdateCompletionWithClient,
                   displayRefreshTimerActive, isScheduled, sceneUpdates, applying,
                   framesInFlight, shouldDispatchDisplayRefreshCallback,
                   shouldCoordinateUpdateCompletionWithClient, owed>>

\* Line 556 in a build without assertions: updateCompleted returns.
AssertNotReached(t) ==
    /\ At(t, "assertNotReached")
    /\ Goto(t, "idle")
    /\ UNCHANGED <<wqVars, airVars, jsVars, termVars, initVars, timerLog, compositor, m_updateState, updateTimerActive,
                   m_clientRendersNextFrame, m_coordinateUpdateCompletionWithClient,
                   displayRefreshTimerActive, isScheduled, sceneUpdates, applying,
                   framesInFlight, shouldDispatchDisplayRefreshCallback,
                   shouldCoordinateUpdateCompletionWithClient, unserved, owed>>

\* CoordinatedGraphicsScene: painting runs the updates that appendUpdate
\* queued since the last paint.
TakeQueuedUpdates ==
    /\ applying' = sceneUpdates
    /\ sceneUpdates' = <<>>

\* WebCore::DisplayRefreshMonitor: handling the refresh notification leaves
\* the monitor unscheduled, with its previous frame done.
HandleDisplayRefreshedNotification == isScheduled' = FALSE

\* updateTimerFired on the compositing thread (lines 559-562): the update
\* function, renderLayerTree (lines 749-787), starts to run and the scene
\* takes the updates queued for it.
UpdateTimerFired ==
    /\ At("compositing", "idle")
    /\ Serving
    /\ updateTimerActive
    /\ framesInFlight < MaxFrames
    /\ updateTimerActive' = FALSE
    /\ TakeQueuedUpdates
    /\ owed' = Clip(owed + 1)
    /\ Goto("compositing", "render")
    /\ UNCHANGED <<wqVars, airVars, jsVars, termVars, initVars, timerLog, compositor, m_updateState,
                   m_clientRendersNextFrame, m_coordinateUpdateCompletionWithClient,
                   displayRefreshTimerActive, isScheduled,
                   framesInFlight, shouldDispatchDisplayRefreshCallback,
                   shouldCoordinateUpdateCompletionWithClient, unserved>>

\* The update appended by updateSceneState runs, line 797:
\* m_clientRendersNextFrame.store(true).
ApplyClientRendersNextFrame ==
    /\ At("compositing", "render")
    /\ applying # <<>>
    /\ m_clientRendersNextFrame' = TRUE
    /\ Goto("compositing", "renderCoordinate")
    /\ UNCHANGED <<wqVars, airVars, jsVars, termVars, initVars, timerLog, compositor, m_updateState, updateTimerActive,
                   m_coordinateUpdateCompletionWithClient,
                   displayRefreshTimerActive, isScheduled, sceneUpdates, applying,
                   framesInFlight, shouldDispatchDisplayRefreshCallback,
                   shouldCoordinateUpdateCompletionWithClient, unserved, owed>>

\* Lines 798-802: m_coordinateUpdateCompletionWithClient.store(
\* coordinateUpdate).
ApplyCoordinateUpdate ==
    /\ At("compositing", "renderCoordinate")
    /\ m_coordinateUpdateCompletionWithClient' = Head(applying)
    /\ applying' = Tail(applying)
    /\ Goto("compositing", "render")
    /\ UNCHANGED <<wqVars, airVars, jsVars, termVars, initVars, timerLog, compositor, m_updateState, updateTimerActive,
                   m_clientRendersNextFrame,
                   displayRefreshTimerActive, isScheduled, sceneUpdates,
                   framesInFlight, shouldDispatchDisplayRefreshCallback,
                   shouldCoordinateUpdateCompletionWithClient, unserved, owed>>

\* Lines 774-779: the frame is painted and handed to the display.
SwapBuffers ==
    /\ At("compositing", "render")
    /\ applying = <<>>
    /\ framesInFlight' = framesInFlight + 1
    /\ Goto("compositing", "idle")
    /\ UNCHANGED <<wqVars, airVars, jsVars, termVars, initVars, timerLog, compositor, m_updateState, updateTimerActive,
                   m_clientRendersNextFrame, m_coordinateUpdateCompletionWithClient,
                   displayRefreshTimerActive, isScheduled, sceneUpdates, applying,
                   shouldDispatchDisplayRefreshCallback,
                   shouldCoordinateUpdateCompletionWithClient, unserved, owed>>

\* frameComplete on the compositing thread, line 962:
\* m_clientRendersNextFrame.load().
FrameCompleteLoadClient ==
    /\ At("compositing", "idle")
    /\ Serving
    /\ framesInFlight > 0
    /\ framesInFlight' = framesInFlight - 1
    /\ IF m_clientRendersNextFrame
       THEN /\ shouldDispatchDisplayRefreshCallback' = TRUE
            /\ Goto("compositing", "frameCompleteCoordinate")
       ELSE /\ UNCHANGED shouldDispatchDisplayRefreshCallback
            /\ Goto("compositing", "frameCompleteMonitor")
    /\ UNCHANGED <<wqVars, airVars, jsVars, termVars, initVars, timerLog, compositor, m_updateState, updateTimerActive,
                   m_clientRendersNextFrame, m_coordinateUpdateCompletionWithClient,
                   displayRefreshTimerActive, isScheduled, sceneUpdates, applying,
                   shouldCoordinateUpdateCompletionWithClient, unserved, owed>>

\* Line 963 with lines 903-907: requiresDisplayRefreshCallback().
FrameCompleteAskMonitor ==
    /\ At("compositing", "frameCompleteMonitor")
    /\ shouldDispatchDisplayRefreshCallback' = isScheduled
    /\ Goto("compositing", "frameCompleteCoordinate")
    /\ UNCHANGED <<wqVars, airVars, jsVars, termVars, initVars, timerLog, compositor, m_updateState, updateTimerActive,
                   m_clientRendersNextFrame, m_coordinateUpdateCompletionWithClient,
                   displayRefreshTimerActive, isScheduled, sceneUpdates, applying,
                   framesInFlight,
                   shouldCoordinateUpdateCompletionWithClient, unserved, owed>>

\* Line 964: m_coordinateUpdateCompletionWithClient.load().
FrameCompleteLoadCoordinate ==
    /\ At("compositing", "frameCompleteCoordinate")
    /\ shouldCoordinateUpdateCompletionWithClient' = m_coordinateUpdateCompletionWithClient
    /\ Goto("compositing", "frameCompleteFinish")
    /\ UNCHANGED <<wqVars, airVars, jsVars, termVars, initVars, timerLog, compositor, m_updateState, updateTimerActive,
                   m_clientRendersNextFrame, m_coordinateUpdateCompletionWithClient,
                   displayRefreshTimerActive, isScheduled, sceneUpdates, applying,
                   framesInFlight, shouldDispatchDisplayRefreshCallback,
                   unserved, owed>>

\* Lines 966-969: the display-refresh timer is started on the main run
\* loop if asked for, and updateCompleted is called unless the completion
\* is left to the client.
FrameCompleteFinish ==
    /\ At("compositing", "frameCompleteFinish")
    /\ displayRefreshTimerActive' =
           (displayRefreshTimerActive \/ shouldDispatchDisplayRefreshCallback)
    /\ IF shouldCoordinateUpdateCompletionWithClient
       THEN Goto("compositing", "idle") /\ UNCHANGED owed
       ELSE Goto("compositing", "updateCompleted") /\ owed' = Clip(owed - 1)
    /\ UNCHANGED <<wqVars, airVars, jsVars, termVars, initVars, timerLog, compositor, m_updateState, updateTimerActive,
                   m_clientRendersNextFrame, m_coordinateUpdateCompletionWithClient,
                   isScheduled, sceneUpdates, applying,
                   framesInFlight, shouldDispatchDisplayRefreshCallback,
                   shouldCoordinateUpdateCompletionWithClient, unserved>>

\* requestRefreshCallback on the main thread (lines 896-901).
RequestRefreshCallback ==
    /\ At("main", "idle")
    /\ Running
    /\ ~isScheduled
    /\ isScheduled' = TRUE
    /\ UNCHANGED <<wqVars, airVars, jsVars, termVars, initVars, timerLog, compositor, threadPc, m_updateState,
                   updateTimerActive,
                   m_clientRendersNextFrame, m_coordinateUpdateCompletionWithClient,
                   displayRefreshTimerActive, sceneUpdates, applying,
                   framesInFlight, shouldDispatchDisplayRefreshCallback,
                   shouldCoordinateUpdateCompletionWithClient, unserved, owed>>

\* displayRefreshCallback on the main thread, lines 919-933: the timer has
\* fired; a scheduled refresh notification is handled, which leaves the
\* monitor unscheduled; the rest is skipped when m_compositor is null.
DisplayRefreshCallback ==
    /\ At("main", "idle")
    /\ displayRefreshTimerActive
    /\ displayRefreshTimerActive' = FALSE
    /\ HandleDisplayRefreshedNotification
    /\ Goto("main", IF Running THEN "displayRefreshClient" ELSE "idle")
    /\ UNCHANGED <<wqVars, airVars, jsVars, termVars, initVars, timerLog, compositor, m_updateState, updateTimerActive,
                   m_clientRendersNextFrame, m_coordinateUpdateCompletionWithClient,
                   sceneUpdates, applying,
                   framesInFlight, shouldDispatchDisplayRefreshCallback,
                   shouldCoordinateUpdateCompletionWithClient, unserved, owed>>

\* Lines 935-936: m_clientRendersNextFrame.compareExchangeStrong(true,
\* false), and on success the scene's renderNextFrame.
DisplayRefreshClient ==
    /\ At("main", "displayRefreshClient")
    /\ m_clientRendersNextFrame' = FALSE
    /\ Goto("main", "displayRefreshCoordinate")
    /\ UNCHANGED <<wqVars, airVars, jsVars, termVars, initVars, timerLog, compositor, m_updateState, updateTimerActive,
                   m_coordinateUpdateCompletionWithClient,
                   displayRefreshTimerActive, isScheduled, sceneUpdates, applying,
                   framesInFlight, shouldDispatchDisplayRefreshCallback,
                   shouldCoordinateUpdateCompletionWithClient, unserved, owed>>

\* Lines 937-938: m_coordinateUpdateCompletionWithClient.
\* compareExchangeStrong(true, false), and on success updateCompleted.
DisplayRefreshCoordinate ==
    /\ At("main", "displayRefreshCoordinate")
    /\ m_coordinateUpdateCompletionWithClient' = FALSE
    /\ IF m_coordinateUpdateCompletionWithClient
       THEN Goto("main", "updateCompleted") /\ owed' = Clip(owed - 1)
       ELSE Goto("main", "idle") /\ UNCHANGED owed
    /\ UNCHANGED <<wqVars, airVars, jsVars, termVars, initVars, timerLog, compositor, m_updateState, updateTimerActive,
                   m_clientRendersNextFrame,
                   displayRefreshTimerActive, isScheduled, sceneUpdates, applying,
                   framesInFlight, shouldDispatchDisplayRefreshCallback,
                   shouldCoordinateUpdateCompletionWithClient, unserved>>

\* m_terminateRunLoopConditionLock and m_terminateRunLoopCondition: a
\* mutual-exclusion lock, and a condition whose wait releases the lock and
\* parks the caller in one step.
TerminateLockFree == m_terminateRunLoopConditionLock = "free"
TerminateLock(t) == TerminateLockFree /\ m_terminateRunLoopConditionLock' = t
TerminateUnlock(t) == m_terminateRunLoopConditionLock' = "free"

TerminateConditionWait(t) ==
    /\ TerminateUnlock(t)
    /\ m_terminateRunLoopCondition' = m_terminateRunLoopCondition \cup {t}

TerminateConditionNotifyOne ==
    IF m_terminateRunLoopCondition = {}
    THEN UNCHANGED m_terminateRunLoopCondition
    ELSE \E t \in m_terminateRunLoopCondition :
             m_terminateRunLoopCondition' = m_terminateRunLoopCondition \ {t}

\* RunLoop::run() marks the main loop of the run loop as running and
\* iterates it until it is no longer marked; RunLoop::stop() removes the
\* mark, and removes nothing when the loop is not yet marked.
RunLoopRun == isRunning' = TRUE
RunLoopStop == isRunning' = FALSE

\* What the steps of the termination leave alone.
updateVars == <<m_updateState, updateTimerActive, m_clientRendersNextFrame,
                m_coordinateUpdateCompletionWithClient, displayRefreshTimerActive,
                isScheduled, sceneUpdates, applying, framesInFlight,
                shouldDispatchDisplayRefreshCallback,
                shouldCoordinateUpdateCompletionWithClient, unserved, owed, timerLog>>

\* The destructor on the main thread (lines 601-603): the display refresh
\* monitor is invalidated, terminateCompositingThread is called.
Destroy ==
    /\ At("main", "idle")
    /\ Running
    /\ compositor' = "invalidated"
    /\ Goto("main", "terminate")
    /\ UNCHANGED <<wqVars, airVars, jsVars, termVars, initVars, updateVars>>

\* Line 860: LockHolder takes m_terminateRunLoopConditionLock.
TerminateCompositingThread ==
    /\ At("main", "terminate")
    /\ TerminateLock("main")
    /\ Goto("main", "stop")
    /\ UNCHANGED <<wqVars, airVars, jsVars, initVars, m_terminateRunLoopCondition, isRunning,
                   compositor, updateVars>>

\* Lines 862-863: m_scene->detach() and runLoop().stop().
StopRunLoop ==
    /\ At("main", "stop")
    /\ RunLoopStop
    /\ Goto("main", "terminateWait")
    /\ UNCHANGED <<wqVars, airVars, jsVars, initVars, m_terminateRunLoopConditionLock,
                   m_terminateRunLoopCondition, compositor, updateVars>>

\* Line 865: m_terminateRunLoopCondition.wait(lock) parks the main thread.
WaitTerminateRunLoop ==
    /\ At("main", "terminateWait")
    /\ TerminateConditionWait("main")
    /\ Goto("main", "terminateParked")
    /\ UNCHANGED <<wqVars, airVars, jsVars, initVars, isRunning, compositor, updateVars>>

\* Line 865: woken by the notification, wait takes the lock again and
\* returns.
TerminateWaitReturns ==
    /\ At("main", "terminateParked")
    /\ "main" \notin m_terminateRunLoopCondition
    /\ TerminateLock("main")
    /\ Goto("main", "terminateReturn")
    /\ UNCHANGED <<wqVars, airVars, jsVars, initVars, m_terminateRunLoopCondition, isRunning,
                   compositor, updateVars>>

\* Lines 866 and 605: terminateCompositingThread returns, LockHolder
\* releases the lock, the destructor returns.
DestructorReturns ==
    /\ At("main", "terminateReturn")
    /\ TerminateUnlock("main")
    /\ compositor' = "destroyed"
    /\ Goto("main", "idle")
    /\ UNCHANGED <<wqVars, airVars, jsVars, initVars, m_terminateRunLoopCondition, isRunning,
                   updateVars>>

\* Lines 842-844: the main loop was quit, runLoop().run() returns and
\* stopUpdates (lines 540-544) stops the timer and stores Completed.
RunLoopStopped ==
    /\ At("compositing", "idle")
    /\ ~isRunning
    /\ updateTimerActive' = FALSE
    /\ m_updateState' = "Completed"
    /\ Goto("compositing", "purgeGLResources")
    /\ NoStartsSince
    /\ UNCHANGED <<wqVars, airVars, jsVars, termVars, initVars, compositor,
                   m_clientRendersNextFrame, m_coordinateUpdateCompletionWithClient,
                   displayRefreshTimerActive, isScheduled, sceneUpdates, applying,
                   framesInFlight, shouldDispatchDisplayRefreshCallback,
                   shouldCoordinateUpdateCompletionWithClient, unserved, owed>>

\* Line 845: m_scene->purgeGLResources().
PurgeGLResources ==
    /\ At("compositing", "purgeGLResources")
    /\ Goto("compositing", "terminateLock")
    /\ UNCHANGED <<wqVars, airVars, jsVars, termVars, initVars, compositor, updateVars>>

\* Line 848: LockHolder takes m_terminateRunLoopConditionLock.
LockTerminateRunLoop ==
    /\ At("compositing", "terminateLock")
    /\ TerminateLock("compositing")
    /\ Goto("compositing", "resetMembers")
    /\ UNCHANGED <<wqVars, airVars, jsVars, initVars, m_terminateRunLoopCondition, isRunning,
                   compositor, updateVars>>

\* Lines 849-851: m_compositingRunLoop, m_context and m_scene are reset.
ResetMembers ==
    /\ At("compositing", "resetMembers")
    /\ created' = created \ {"m_compositingRunLoop", "m_scene"}
    /\ Goto("compositing", "terminateNotify")
    /\ UNCHANGED <<wqVars, airVars, jsVars, termVars, m_initializeRunLoopConditionLock,
                   m_initializeRunLoopCondition, compositor, updateVars>>

\* Line 852: m_terminateRunLoopCondition.notifyOne().
NotifyTerminateRunLoop ==
    /\ At("compositing", "terminateNotify")
    /\ TerminateConditionNotifyOne
    /\ Goto("compositing", "terminateUnlock")
    /\ UNCHANGED <<wqVars, airVars, jsVars, initVars, m_terminateRunLoopConditionLock,
                   isRunning, compositor, updateVars>>

\* Lines 853-856: the block ends, LockHolder releases the lock; the thread
\* is detached and ends.
ThreadExits ==
    /\ At("compositing", "terminateUnlock")
    /\ TerminateUnlock("compositing")
    /\ Goto("compositing", "exited")
    /\ UNCHANGED <<wqVars, airVars, jsVars, initVars, m_terminateRunLoopCondition, isRunning,
                   compositor, updateVars>>

CompositorInit ==
    EnginesAre(<<>>, <<>>) /\ NoScript /\ CompositorIs("running") /\ NoWorkQueue

CompositorNext ==
    \/ \E t \in Threads : CallScheduleUpdate(t)
    \/ \E coordinateUpdate \in BOOLEAN : UpdateSceneState(coordinateUpdate)
    \/ \E t \in Threads : ScheduleUpdateFirst(t)
    \/ \E t \in Threads : ScheduleUpdateSecond(t)
    \/ \E t \in Threads : UpdateCompletedFirst(t)
    \/ \E t \in Threads : UpdateCompletedSecond(t)
    \/ \E t \in Threads : AssertNotReached(t)
    \/ UpdateTimerFired
    \/ ApplyClientRendersNextFrame
    \/ ApplyCoordinateUpdate
    \/ SwapBuffers
    \/ FrameCompleteLoadClient
    \/ FrameCompleteAskMonitor
    \/ FrameCompleteLoadCoordinate
    \/ FrameCompleteFinish
    \/ RequestRefreshCallback
    \/ DisplayRefreshCallback
    \/ DisplayRefreshClient
    \/ DisplayRefreshCoordinate
    \/ Destroy
    \/ TerminateCompositingThread
    \/ StopRunLoop
    \/ WaitTerminateRunLoop
    \/ TerminateWaitReturns
    \/ DestructorReturns
    \/ RunLoopStopped
    \/ PurgeGLResources
    \/ LockTerminateRunLoop
    \/ ResetMembers
    \/ NotifyTerminateRunLoop
    \/ ThreadExits

CompositorSpec == CompositorInit /\ [][CompositorNext]_vars

\* What the threads do without being asked from outside.  A call that has
\* begun runs on: only its own thread can move it, so weak fairness is
\* enough.  A run loop gets to every timer that is active and to every
\* task that is queued however often other tasks come in between, and the
\* display answers every frame with frameComplete: strong fairness.
CallProgress(t) ==
    \/ ScheduleUpdateFirst(t) \/ ScheduleUpdateSecond(t)
    \/ UpdateCompletedFirst(t) \/ UpdateCompletedSecond(t) \/ AssertNotReached(t)
    \/ (t = "main" /\
           (\/ DisplayRefreshClient \/ DisplayRefreshCoordinate
            \/ TerminateCompositingThread \/ StopRunLoop \/ WaitTerminateRunLoop
            \/ TerminateWaitReturns \/ DestructorReturns))
    \/ (t = "compositing" /\
           (\/ ApplyClientRendersNextFrame \/ ApplyCoordinateUpdate \/ SwapBuffers
            \/ FrameCompleteAskMonitor \/ FrameCompleteLoadCoordinate
            \/ FrameCompleteFinish
            \/ PurgeGLResources \/ LockTerminateRunLoop \/ ResetMembers
            \/ NotifyTerminateRunLoop \/ ThreadExits))

CompositorFairSpec ==
    /\ CompositorInit
    /\ [][CompositorNext]_vars
    /\ \A t \in Threads : WF_vars(CallProgress(t))
    /\ SF_vars(UpdateTimerFired)
    /\ SF_vars(FrameCompleteLoadClient)
    /\ SF_vars(DisplayRefreshCallback)
    /\ SF_vars(RunLoopStopped)

(***************************************************************************)
(* The start of the compositing thread: the constructor of                 *)
(* ThreadedCompositor on the main thread (lines 587-599) calls             *)
(* createCompositingThread (lines 817-826), the new thread runs            *)
(* runCompositingThread (lines 828-842).  Lock is a mutual-exclusion lock; *)
(* Condition::wait releases the lock and parks the caller in one step and  *)
(* returns, with the lock taken again, only after a notifyOne that found   *)
(* the caller parked.                                                      *)
(***************************************************************************)
frameVars == <<m_updateState, updateTimerActive, m_clientRendersNextFrame,
               m_coordinateUpdateCompletionWithClient, displayRefreshTimerActive,
               isScheduled, sceneUpdates, applying, framesInFlight,
               shouldDispatchDisplayRefreshCallback,
               shouldCoordinateUpdateCompletionWithClient, unserved, owed, timerLog>>

LockFree == m_initializeRunLoopConditionLock = "free"
LockHeldBy(t) == m_initializeRunLoopConditionLock = t
Lock(t) == LockFree /\ m_initializeRunLoopConditionLock' = t
Unlock(t) == m_initializeRunLoopConditionLock' = "free"

ConditionWait(t) ==
    /\ Unlock(t)
    /\ m_initializeRunLoopCondition' = m_initializeRunLoopCondition \cup {t}

ConditionNotifyOne ==
    IF m_initializeRunLoopCondition = {}
    THEN UNCHANGED m_initializeRunLoopCondition
    ELSE \E t \in m_initializeRunLoopCondition :
             m_initializeRunLoopCondition' = m_initializeRunLoopCondition \ {t}

\* The constructor has run its member initializers and the two stores of
\* lines 595-596; no compositing thread exists.
BeingConstructed ==
    /\ compositor = "constructing"
    /\ threadPc = [main |-> "createCompositingThread", compositing |-> "notStarted"]
    /\ m_updateState = "Completed"
    /\ updateTimerActive = FALSE
    /\ m_clientRendersNextFrame = FALSE
    /\ m_coordinateUpdateCompletionWithClient = FALSE
    /\ displayRefreshTimerActive = FALSE
    /\ isScheduled = FALSE
    /\ sceneUpdates = <<>>
    /\ applying = <<>>
    /\ framesInFlight = 0
    /\ shouldDispatchDisplayRefreshCallback = FALSE
    /\ shouldCoordinateUpdateCompletionWithClient = FALSE
    /\ unserved = {}
    /\ owed = 0
    /\ timerLog = [parity |-> 0, starts |-> 0]
    /\ m_initializeRunLoopConditionLock = "free"
    /\ m_initializeRunLoopCondition = {}
    /\ created = {}
    /\ m_terminateRunLoopConditionLock = "free"
    /\ m_terminateRunLoopCondition = {}
    /\ isRunning = FALSE

\* createCompositingThread going on to createThread without taking the
\* lock.
CreateCompositingThreadUnlocked ==
    /\ At("main", "createCompositingThread")
    /\ Goto("main", "createThread")
    /\ UNCHANGED <<wqVars, airVars, jsVars, termVars, initVars, compositor, frameVars>>

\* Lines 819-822: m_threadIdentifier is 0; LockHolder takes
\* m_initializeRunLoopConditionLock.
CreateCompositingThread ==
    /\ At("main", "createCompositingThread")
    /\ Lock("main")
    /\ Goto("main", "createThread")
    /\ UNCHANGED <<wqVars, airVars, jsVars, termVars, m_initializeRunLoopCondition, created,
                   compositor, frameVars>>

\* Line 823: createThread; the new thread is at compositingThreadEntry.
CreateThread ==
    /\ At("main", "createThread")
    /\ threadPc' = [main |-> "wait", compositing |-> "runCompositingThread"]
    /\ UNCHANGED <<wqVars, airVars, jsVars, termVars, initVars, compositor, frameVars>>

\* Line 825: m_initializeRunLoopCondition.wait(lock) parks the main thread.
WaitInitializeRunLoop ==
    /\ At("main", "wait")
    /\ ConditionWait("main")
    /\ Goto("main", "parked")
    /\ UNCHANGED <<wqVars, airVars, jsVars, termVars, created, compositor, frameVars>>

\* Line 825: woken by the notification, wait takes the lock again and
\* returns.
WaitReturns ==
    /\ At("main", "parked")
    /\ "main" \notin m_initializeRunLoopCondition
    /\ Lock("main")
    /\ Goto("main", "createReturn")
    /\ UNCHANGED <<wqVars, airVars, jsVars, termVars, m_initializeRunLoopCondition, created,
                   compositor, frameVars>>

\* Line 826: createCompositingThread returns, LockHolder releases the lock.
CreateCompositingThreadReturns ==
    /\ At("main", "createReturn")
    /\ Unlock("main")
    /\ Goto("main", "establishConnection")
    /\ UNCHANGED <<wqVars, airVars, jsVars, termVars, m_initializeRunLoopCondition, created,
                   compositor, frameVars>>

\* Line 598: the constructor dereferences m_compositingRunLoop; with the
\* member still null the dereference is where the run ends.
EstablishConnection ==
    /\ At("main", "establishConnection")
    /\ IF "m_compositingRunLoop" \in created
       THEN compositor' = "running" /\ Goto("main", "idle")
       ELSE UNCHANGED compositor /\ Goto("main", "nullDereference")
    /\ UNCHANGED <<wqVars, airVars, jsVars, termVars, initVars, frameVars>>

\* Line 831: the new thread takes m_initializeRunLoopConditionLock.
RunCompositingThread ==
    /\ At("compositing", "runCompositingThread")
    /\ Lock("compositing")
    /\ Goto("compositing", "makeRunLoop")
    /\ UNCHANGED <<wqVars, airVars, jsVars, termVars, m_initializeRunLoopCondition, created,
                   compositor, frameVars>>

\* Lines 833-835 with the constructor of CompositingRunLoop (lines
\* 511-517), lines 836 and 837: one member is created.
MakeMember(member, from, to) ==
    /\ At("compositing", from)
    /\ created' = created \cup {member}
    /\ Goto("compositing", to)
    /\ IF member = "m_compositingRunLoop"
       THEN /\ m_updateState' = "Completed"
            /\ updateTimerActive' = FALSE
            /\ UNCHANGED <<m_clientRendersNextFrame,
                           m_coordinateUpdateCompletionWithClient,
                           displayRefreshTimerActive, isScheduled, sceneUpdates,
                           applying, framesInFlight,
                           shouldDispatchDisplayRefreshCallback,
                           shouldCoordinateUpdateCompletionWithClient, unserved,
                           owed, timerLog>>
       ELSE UNCHANGED frameVars
    /\ UNCHANGED <<wqVars, airVars, jsVars, termVars, m_initializeRunLoopConditionLock,
                   m_initializeRunLoopCondition, compositor>>

MakeCompositingRunLoop == MakeMember("m_compositingRunLoop", "makeRunLoop", "makeScene")
MakeScene == MakeMember("m_scene", "makeScene", "makeViewportController")
MakeViewportController == MakeMember("m_viewportController", "makeViewportController", "notifyOne")

\* Line 839: m_initializeRunLoopCondition.notifyOne().
NotifyInitializeRunLoop ==
    /\ At("compositing", "notifyOne")
    /\ ConditionNotifyOne
    /\ Goto("compositing", "initialized")
    /\ UNCHANGED <<wqVars, airVars, jsVars, termVars, m_initializeRunLoopConditionLock, created,
                   compositor, frameVars>>

\* Line 840: the block ends, LockHolder releases the lock.
InitializedRunLoop ==
    /\ At("compositing", "initialized")
    /\ Unlock("compositing")
    /\ Goto("compositing", "run")
    /\ UNCHANGED <<wqVars, airVars, jsVars, termVars, m_initializeRunLoopCondition, created,
                   compositor, frameVars>>

\* Line 842: runLoop().run() starts.
EnterRunLoop ==
    /\ At("compositing", "run")
    /\ RunLoopRun
    /\ Goto("compositing", "idle")
    /\ UNCHANGED <<wqVars, airVars, jsVars, initVars, m_terminateRunLoopConditionLock,
                   m_terminateRunLoopCondition, compositor, frameVars>>

LifeInit == EnginesAre(<<>>, <<>>) /\ NoScript /\ BeingConstructed /\ NoWorkQueue

\* A compositor from its constructor to its destructor.
LifeNext ==
    \/ CreateCompositingThread
    \/ CreateThread
    \/ WaitInitializeRunLoop
    \/ WaitReturns
    \/ CreateCompositingThreadReturns
    \/ EstablishConnection
    \/ RunCompositingThread
    \/ MakeCompositingRunLoop
    \/ MakeScene
    \/ MakeViewportController
    \/ NotifyInitializeRunLoop
    \/ InitializedRunLoop
    \/ EnterRunLoop
    \/ CompositorNext

LifeSpec == LifeInit /\ [][LifeNext]_vars

\* The steps of the construction that a thread takes on its own.
CreationProgress(t) ==
    \/ (t = "main" /\
           (\/ CreateCompositingThread \/ CreateThread \/ WaitInitializeRunLoop
            \/ WaitReturns \/ CreateCompositingThreadReturns \/ EstablishConnection))
    \/ (t = "compositing" /\
           (\/ RunCompositingThread \/ MakeCompositingRunLoop \/ MakeScene
            \/ MakeViewportController \/ NotifyInitializeRunLoop
            \/ InitializedRunLoop \/ EnterRunLoop))

\* Both threads run on through the construction as they do through every
\* call; the run loops are as fair as in CompositorFairSpec.
LifeFairSpec ==
    /\ LifeInit
    /\ [][LifeNext]_vars
    /\ \A t \in Threads : WF_vars(CreationProgress(t))
    /\ \A t \in Threads : WF_vars(CallProgress(t))
    /\ SF_vars(UpdateTimerFired)
    /\ SF_vars(FrameCompleteLoadClient)
    /\ SF_vars(DisplayRefreshCallback)
    /\ SF_vars(RunLoopStopped)

(***************************************************************************)
(* WorkQueue on GLib (WorkQueueGLib.cpp).  The caller is the thread that   *)
(* owns the queue, the worker is the thread created by platformInitialize. *)
(* A GMainLoop holds a reference to its GMainContext; a context that       *)
(* nothing refers to is destroyed together with the sources attached to    *)
(* it.  g_main_loop_run marks the loop as running and iterates the context *)
(* while the loop is marked; g_main_loop_quit removes the mark.  A source  *)
(* whose callback returns false is removed from its context.               *)
(***************************************************************************)
MaxDispatch == 2
MaxRegistrations == 2

WqAt(t, where) == wqPc[t] = where
WqGoto(t, where) == wqPc' = [wqPc EXCEPT ![t] = where]

LoopAlive(member, lambda) == member = "loop" \/ lambda = "loop"
ContextAlive(context, member, lambda) ==
    context = "context" \/ LoopAlive(member, lambda)

\* The sources that are left on the context once the references are as
\* given.
Surviving(sources, context, member, lambda) ==
    IF ContextAlive(context, member, lambda) THEN sources ELSE {}

socketVars == <<socketLog>>

\* WorkQueue::dispatch (lines 117-120).
Dispatch ==
    /\ WqAt("caller", "idle")
    /\ m_dispatchQueue < MaxDispatch
    /\ m_dispatchQueue' = m_dispatchQueue + 1
    /\ UNCHANGED <<airVars, jsVars, tcVars, wqPc, is_running, m_eventLoop,
                   m_eventContext, lambdaEventLoop, attached, quitVia, socketVars>>

\* WorkQueue::registerSocketEventHandler (lines 91-110): a new registration
\* of the socket source on the queue's context.
RegisterSocketEventHandler ==
    /\ WqAt("caller", "idle")
    /\ "socket" \notin attached
    /\ socketLog.registration < MaxRegistrations
    /\ attached' = attached \cup {"socket"}
    /\ socketLog' = [socketLog EXCEPT !.registration = @ + 1, !.closeCalled = FALSE]
    /\ UNCHANGED <<airVars, jsVars, tcVars, wqPc, is_running, m_eventLoop,
                   m_eventContext, lambdaEventLoop, m_dispatchQueue, quitVia>>

\* WorkQueue::unregisterSocketEventHandler (lines 112-115).
UnregisterSocketEventHandler ==
    /\ WqAt("caller", "idle")
    /\ "socket" \in attached
    /\ attached' = attached \ {"socket"}
    /\ UNCHANGED <<airVars, jsVars, tcVars, wqPc, is_running, m_eventLoop,
                   m_eventContext, lambdaEventLoop, m_dispatchQueue, quitVia,
                   socketVars>>

\* The handler that answers an error condition only when no input is
\* reported.
SocketEventHandlerInputFirst(condition) ==
    IF "IN" \in condition THEN [called |-> "function", keep |-> TRUE]
    ELSE IF condition \cap {"HUP", "ERR", "NVAL"} # {}
    THEN [called |-> "closeFunction", keep |-> FALSE]
    ELSE [called |-> "ASSERT_NOT_REACHED", keep |-> FALSE]

\* The lambda of lines 96-109: what it calls and what it returns.
SocketEventHandler(condition) ==
    IF condition \cap {"HUP", "ERR", "NVAL"} # {}
    THEN [called |-> "closeFunction", keep |-> FALSE]
    ELSE IF "IN" \in condition
    THEN [called |-> "function", keep |-> TRUE]
    ELSE [called |-> "ASSERT_NOT_REACHED", keep |-> FALSE]

\* The conditions a socket source that asks for G_IO_IN is dispatched with.
Conditions == (SUBSET {"IN", "HUP", "ERR", "NVAL"}) \ {{}}

\* The worker's loop dispatches the socket source with a condition.
SocketEvent(condition) ==
    /\ WqAt("worker", "loop")
    /\ "socket" \in attached
    /\ LET result == SocketEventHandler(condition)
       IN /\ attached' = IF result.keep THEN attached ELSE attached \ {"socket"}
          /\ socketLog' =
                 [socketLog EXCEPT
                     !.events = 1 - @,
                     !.condition = condition,
                     !.called = result.called,
                     !.closeCalled = @ \/ result.called = "closeFunction",
                     !.functionAfterClose =
                         @ \/ (result.called = "function" /\ socketLog.closeCalled)]
    /\ UNCHANGED <<airVars, jsVars, tcVars, wqPc, is_running, m_eventLoop,
                   m_eventContext, lambdaEventLoop, m_dispatchQueue, quitVia>>

\* The worker's loop runs one function of m_dispatchQueue.
DispatchFunction ==
    /\ WqAt("worker", "loop")
    /\ m_dispatchQueue > 0
    /\ m_dispatchQueue' = m_dispatchQueue - 1
    /\ UNCHANGED <<airVars, jsVars, tcVars, wqPc, is_running, m_eventLoop,
                   m_eventContext, lambdaEventLoop, attached, quitVia, socketVars>>

\* Lines 61-63: the new thread begins the lambda and makes the context its
\* thread default.
ThreadStarts ==
    /\ WqAt("worker", "created")
    /\ WqGoto("worker", "run")
    /\ UNCHANGED <<airVars, jsVars, tcVars, is_running, m_eventLoop, m_eventContext,
                   lambdaEventLoop, attached, m_dispatchQueue, quitVia, socketVars>>

\* Line 64: g_main_loop_run begins.
MainLoopRun ==
    /\ WqAt("worker", "run")
    /\ is_running' = TRUE
    /\ WqGoto("worker", "loop")
    /\ UNCHANGED <<airVars, jsVars, tcVars, m_eventLoop, m_eventContext,
                   lambdaEventLoop, attached, m_dispatchQueue, quitVia, socketVars>>

\* The worker's loop dispatches the one-shot source of lines 82-83, which
\* calls g_main_loop_quit and is gone.
DispatchQuit ==
    /\ WqAt("worker", "loop")
    /\ "quit" \in attached
    /\ is_running' = FALSE
    /\ attached' = attached \ {"quit"}
    /\ UNCHANGED <<airVars, jsVars, tcVars, wqPc, m_eventLoop, m_eventContext,
                   lambdaEventLoop, m_dispatchQueue, quitVia, socketVars>>

\* Line 64: the loop is no longer marked as running, g_main_loop_run
\* returns.
MainLoopReturns ==
    /\ WqAt("worker", "loop")
    /\ ~is_running
    /\ WqGoto("worker", "pop")
    /\ UNCHANGED <<airVars, jsVars, tcVars, is_running, m_eventLoop, m_eventContext,
                   lambdaEventLoop, attached, m_dispatchQueue, quitVia, socketVars>>

\* Lines 65-66: the context is popped, the lambda ends and its reference to
\* the loop with it.
ThreadEnds ==
    /\ WqAt("worker", "pop")
    /\ lambdaEventLoop' = "null"
    /\ attached' = Surviving(attached, m_eventContext, m_eventLoop, "null")
    /\ WqGoto("worker", "ended")
    /\ UNCHANGED <<airVars, jsVars, tcVars, is_running, m_eventLoop, m_eventContext,
                   m_dispatchQueue, quitVia, socketVars>>

\* Lines 71-74: the thread is detached.  The queue is invalidated when the
\* last reference to it is gone, and the handler of a registered socket
\* source holds one.
PlatformInvalidate ==
    /\ WqAt("caller", "idle")
    /\ "socket" \notin attached
    /\ WqGoto("caller", "checkEventLoop")
    /\ UNCHANGED <<airVars, jsVars, tcVars, is_running, m_eventLoop, m_eventContext,
                   lambdaEventLoop, attached, m_dispatchQueue, quitVia, socketVars>>

\* Lines 76-77: m_eventLoop is set; g_main_loop_is_running is read.
IsRunning ==
    /\ WqAt("caller", "checkEventLoop")
    /\ m_eventLoop = "loop"
    /\ WqGoto("caller", IF is_running THEN "quit" ELSE "construct")
    /\ UNCHANGED <<airVars, jsVars, tcVars, is_running, m_eventLoop, m_eventContext,
                   lambdaEventLoop, attached, m_dispatchQueue, quitVia, socketVars>>

\* Line 78: g_main_loop_quit.
QuitMainLoop ==
    /\ WqAt("caller", "quit")
    /\ is_running' = FALSE
    /\ quitVia' = "g_main_loop_quit"
    /\ WqGoto("caller", "resetEventLoop")
    /\ UNCHANGED <<airVars, jsVars, tcVars, m_eventLoop, m_eventContext,
                   lambdaEventLoop, attached, m_dispatchQueue, socketVars>>

\* platformInvalidate without the branch of lines 79-84.
ConstructQuitSourceSkipped ==
    /\ WqAt("caller", "construct")
    /\ quitVia' = "source"
    /\ WqGoto("caller", "resetEventLoop")
    /\ UNCHANGED <<airVars, jsVars, tcVars, is_running, m_eventLoop, m_eventContext,
                   lambdaEventLoop, attached, m_dispatchQueue, socketVars>>

\* Lines 81-83: a one-shot source that quits the loop is attached to the
\* queue's context.
ConstructQuitSource ==
    /\ WqAt("caller", "construct")
    /\ attached' = attached \cup {"quit"}
    /\ quitVia' = "source"
    /\ WqGoto("caller", "resetEventLoop")
    /\ UNCHANGED <<airVars, jsVars, tcVars, is_running, m_eventLoop, m_eventContext,
                   lambdaEventLoop, m_dispatchQueue, socketVars>>

\* Line 85: m_eventLoop = nullptr.
ResetEventLoop ==
    /\ WqAt("caller", "resetEventLoop")
    /\ m_eventLoop' = "null"
    /\ attached' = Surviving(attached, m_eventContext, "null", lambdaEventLoop)
    /\ WqGoto("caller", "resetEventContext")
    /\ UNCHANGED <<airVars, jsVars, tcVars, is_running, m_eventContext,
                   lambdaEventLoop, m_dispatchQueue, quitVia, socketVars>>

\* Line 88: m_eventContext = nullptr.
ResetEventContext ==
    /\ WqAt("caller", "resetEventContext")
    /\ m_eventContext' = "null"
    /\ attached' = Surviving(attached, "null", m_eventLoop, lambdaEventLoop)
    /\ WqGoto("caller", "invalidated")
    /\ UNCHANGED <<airVars, jsVars, tcVars, is_running, m_eventLoop,
                   lambdaEventLoop, m_dispatchQueue, quitVia, socketVars>>

WorkQueueInit ==
    EnginesAre(<<>>, <<>>) /\ NoScript /\ NoCompositor /\ WorkQueueIs("created")

WorkQueueNext ==
    \/ Dispatch
    \/ RegisterSocketEventHandler
    \/ UnregisterSocketEventHandler
    \/ \E condition \in Conditions : SocketEvent(condition)
    \/ DispatchFunction
    \/ ThreadStarts
    \/ MainLoopRun
    \/ DispatchQuit
    \/ MainLoopReturns
    \/ ThreadEnds
    \/ PlatformInvalidate
    \/ IsRunning
    \/ QuitMainLoop
    \/ ConstructQuitSource
    \/ ResetEventLoop
    \/ ResetEventContext

WorkQueueSpec == WorkQueueInit /\ [][WorkQueueNext]_vars

\* The worker runs on by itself: it starts, enters its loop, dispatches what
\* is ready and leaves the loop once it is no longer marked as running.
WorkerProgress ==
    \/ ThreadStarts \/ MainLoopRun \/ DispatchQuit \/ MainLoopReturns \/ ThreadEnds

WorkQueueFairSpec ==
    WorkQueueInit /\ [][WorkQueueNext]_vars /\ WF_vars(WorkerProgress)

(***************************************************************************)
(* Vocabulary of the properties.                                           *)
(***************************************************************************)
Returned(e) == pc[e] = "done"

Blocks(c) == {b \in BlockIds : ~c.blocks[b].isNull}

\* Every operand occurrence of the code: block, instruction index (from 0),
\* operand.
Occurrences(c) ==
    {occ \in UNION {{<<b, i - 1, c.blocks[b].insts[i][k]>> :
                        k \in 1..Len(c.blocks[b].insts[i])} :
                    <<b, i>> \in {q \in Blocks(c) \X (1..3) :
                                     q[2] <= Len(c.blocks[q[1]].insts)}} : TRUE}

\* The accepted occurrences of the entity with index t.
RefsTo(c, a, t) ==
    {occ \in Occurrences(c) :
        BelongsTo(occ[3].thing, a) /\ valueToIndex(a, occ[3].thing) = t}

IsTerminalOcc(c, occ) == occ[2] = size(c, occ[1]) - 1

\* The entities of an adapter's domain (registers and temporaries of the
\* bank, or the stack slots), and their indices.
Entities(a, c) ==
    IF a = "StackSlot" THEN Range(c.stackSlots)
    ELSE {TmpFromAbsoluteIndex(a, i) : i \in 1..(NumRegs + c.numTmps[a])}

EntityIndices(a, c) ==
    IF a = "StackSlot" THEN 0..(Len(c.stackSlots) - 1)
    ELSE 1..(NumRegs + c.numTmps[a])

Indices(c, a) == EntityIndices(a, c)

\* Lines 83-84: the capacity the workset was constructed with.
WorksetCapacity(e) == maxIndex(adapter[e], code[e])

(***************************************************************************)
(* C1: after the constructor returns, liveAtTail[b] is exactly the late    *)
(* uses of b's terminal united with the live-before-first-instruction sets *)
(* of b's successors, computed by LocalCalc from the final tail sets.      *)
(***************************************************************************)
FixedPointAt(e, b) ==
    liveAtTail[e][b] =
        SeedTail(code[e], adapter[e], b)
        \cup UNION {LiveAtHeadOf(code[e], adapter[e], liveAtTail[e], s) :
                       s \in successors(code[e], b)}

C1_FixedPoint ==
    \A e \in Engines :
        Returned(e) => \A b \in Blocks(code[e]) : FixedPointAt(e, b)

(***************************************************************************)
(* C2: the constructor's do/while loop terminates: under the constructor's *)
(* own progress every engine eventually returns.                           *)
(***************************************************************************)
C2_Terminates == <>(\A e \in Engines : Returned(e))

C2_Reached == \A e \in Engines : Returned(e)

(***************************************************************************)
(* C3: in the 3-block CFG block0 -> block1 -> block2 -> block1 where t is  *)
(* defined in block0 and late-used only by block2's terminal, after        *)
(* construction t is live before the first instruction of block1 and of    *)
(* block2 and is in liveAtTail[block0] and liveAtTail[block1].             *)
(***************************************************************************)
LoopShape(c) ==
    /\ NumBlocks >= 3
    /\ {0, 1, 2} \subseteq Blocks(c)
    /\ successors(c, 0) = {1}
    /\ successors(c, 1) = {2}
    /\ successors(c, 2) = {1}

LoopScenario(c, a, t) ==
    /\ LoopShape(c)
    /\ \E occ \in RefsTo(c, a, t) : occ[1] = 0 /\ occ[3].role = "Def"
    /\ \E occ \in RefsTo(c, a, t) :
          occ[1] = 2 /\ IsTerminalOcc(c, occ) /\ occ[3].role = "LateUse"
    /\ \A occ \in RefsTo(c, a, t) :
          \/ occ[1] = 0 /\ occ[3].role = "Def"
          \/ occ[1] = 2 /\ IsTerminalOcc(c, occ) /\ occ[3].role = "LateUse"

C3_LoopConvergence ==
    \A e \in Engines :
        (Returned(e) /\ LoopShape(code[e])) =>
        \A t \in Indices(code[e], adapter[e]) :
        LoopScenario(code[e], adapter[e], t) =>
            /\ t \in LiveAtHeadOf(code[e], adapter[e], liveAtTail[e], 1)
            /\ t \in LiveAtHeadOf(code[e], adapter[e], liveAtTail[e], 2)
            /\ t \in liveAtTail[e][0]
            /\ t \in liveAtTail[e][1]

C3_Reached ==
    \E e \in Engines : \E t \in Indices(code[e], adapter[e]) :
        /\ Returned(e)
        /\ LoopScenario(code[e], adapter[e], t)
        /\ t \in liveAtTail[e][0]

(***************************************************************************)
(* C4: in a two-block CFG block0 -> block1 where block1's terminal has     *)
(* LateUse(t) and block0's terminal does not use t, after construction     *)
(* liveAtTail[block0] contains t and t is live before the first            *)
(* instruction of block1.                                                  *)
(***************************************************************************)
IsUse(role) == isEarlyUse(role) \/ isLateUse(role)

TwoBlockShape(c) == Blocks(c) = {0, 1} /\ 1 \in successors(c, 0)

TwoBlockScenario(c, a, t) ==
    /\ TwoBlockShape(c)
    /\ \E occ \in RefsTo(c, a, t) :
          occ[1] = 1 /\ IsTerminalOcc(c, occ) /\ occ[3].role = "LateUse"
    /\ \A occ \in RefsTo(c, a, t) :
          (occ[1] = 0 /\ IsTerminalOcc(c, occ)) => ~IsUse(occ[3].role)

PropagatedAcrossEdge(e, t) ==
    /\ t \in liveAtTail[e][0]
    /\ t \in LiveAtHeadOf(code[e], adapter[e], liveAtTail[e], 1)

\* C4 without the restriction on block1's definitions: whenever t is used in
\* block1 and not used or defined in block0's terminal, t is live at the tail
\* of block0 and at the head of block1.
C4_PropagationAsStated ==
    \A e \in Engines :
        (Returned(e) /\ TwoBlockShape(code[e])) =>
        \A t \in Indices(code[e], adapter[e]) :
        TwoBlockScenario(code[e], adapter[e], t) => PropagatedAcrossEdge(e, t)

NoDefIn(c, a, t, b) ==
    \A occ \in RefsTo(c, a, t) : occ[1] = b => ~isDef(occ[3].role)

\* C4 as amended: ... provided no instruction of block1 defines t.
C4_Propagation ==
    \A e \in Engines :
        (Returned(e) /\ TwoBlockShape(code[e])) =>
        \A t \in Indices(code[e], adapter[e]) :
        (/\ TwoBlockScenario(code[e], adapter[e], t)
         /\ NoDefIn(code[e], adapter[e], t, 1)) =>
            PropagatedAcrossEdge(e, t)

C4_Reached ==
    \E e \in Engines : \E t \in Indices(code[e], adapter[e]) :
        /\ Returned(e)
        /\ TwoBlockScenario(code[e], adapter[e], t)
        /\ NoDefIn(code[e], adapter[e], t, 1)
        /\ PropagatedAcrossEdge(e, t)

(***************************************************************************)
(* C5: for a block [Def(t), EarlyUse(t)] with no other reference to t in   *)
(* the code, a backward scan has t live after execute(1) and not live      *)
(* after execute(0), and t never enters the liveAtTail of a predecessor.   *)
(***************************************************************************)
KillScenario(c, a, t, b) ==
    /\ b \in Blocks(c)
    /\ size(c, b) = 2
    /\ t \in Range(Defs(at(c, b).insts[1], a))
    /\ t \in Range(EarlyUses(at(c, b).insts[2], a))
    /\ \A occ \in RefsTo(c, a, t) :
          /\ occ[1] = b
          /\ \/ occ[2] = 0 /\ occ[3].role = "Def"
             \/ occ[2] = 1 /\ occ[3].role = "Use"
    /\ \E occ \in RefsTo(c, a, t) : occ[2] = 0
    /\ \E occ \in RefsTo(c, a, t) : occ[2] = 1

C5_KillSemantics ==
    \A e \in Engines : \A t \in Indices(code[e], adapter[e]) :
        \A b \in BlockIds :
            KillScenario(code[e], adapter[e], t, b) =>
                /\ (calcBlock[e] = b /\ instIndex[e] = 1) => SparseContains(workset[e], t)
                /\ (calcBlock[e] = b /\ instIndex[e] = 0) => ~SparseContains(workset[e], t)
                /\ t \notin LiveAtHeadOf(code[e], adapter[e], liveAtTail[e], b)
                /\ \A p \in predecessors(code[e], b) : t \notin liveAtTail[e][p]

C5_Reached ==
    \E e \in Engines : \E t \in Indices(code[e], adapter[e]) :
        \E b \in BlockIds :
            /\ KillScenario(code[e], adapter[e], t, b)
            /\ predecessors(code[e], b) # {}
            /\ Returned(e)
            /\ calcBlock[e] = b
            /\ instIndex[e] = 0

(***************************************************************************)
(* C6: domain isolation.  Two engines of one domain over codes that differ *)
(* only in operands of other domains compute the same liveAtTail sets and  *)
(* the same live() sets, and no index an engine holds belongs to a thing   *)
(* of another domain.                                                      *)
(***************************************************************************)
StripCode(c, a) == Variant("strip", c, a)

SameForDomain(e1, e2) ==
    /\ adapter[e1] = adapter[e2]
    /\ StripCode(code[e1], adapter[e1]) = StripCode(code[e2], adapter[e2])

OwnThings(c, a) ==
    {occ[3].thing : occ \in {o \in Occurrences(c) : BelongsTo(o[3].thing, a)}}

Held(e) == Range(workset[e]) \cup UNION {liveAtTail[e][b] : b \in BlockIds}

Live(e) == {indexToValue(adapter[e], code[e], i) : i \in Range(workset[e])}

C6_DomainIsolation ==
    /\ \A e \in Engines :
          \A i \in Held(e) :
              \E th \in OwnThings(code[e], adapter[e]) : valueToIndex(adapter[e], th) = i
    /\ \A e1, e2 \in Engines :
          SameForDomain(e1, e2) =>
              /\ (Returned(e1) /\ Returned(e2)) => liveAtTail[e1] = liveAtTail[e2]
              /\ (/\ Returned(e1) /\ Returned(e2)
                  /\ calcBlock[e1] # NoBlock
                  /\ calcBlock[e1] = calcBlock[e2]
                  /\ instIndex[e1] = instIndex[e2]) => Live(e1) = Live(e2)

C6_Reached ==
    \E e1, e2 \in Engines :
        /\ SameForDomain(e1, e2)
        /\ code[e1] # code[e2]
        /\ Returned(e1) /\ Returned(e2)
        /\ calcBlock[e1] # NoBlock
        /\ calcBlock[e1] = calcBlock[e2]
        /\ instIndex[e1] = 0 /\ instIndex[e2] = 0
        /\ Live(e1) # {}
        /\ \E b \in BlockIds : liveAtTail[e1][b] # {}

(***************************************************************************)
(* C7: idempotent re-scan.  After construction, whatever the workset held  *)
(* before and in whatever order the tail set is iterated, the workset      *)
(* after each execute(i) of a scan of block b is the set determined by     *)
(* liveAtTail[b] and b's instructions alone.                               *)
(***************************************************************************)
RescanResult(e, b, i) ==
    Range(ScanRange(SetToSeq(liveAtTail[e][b]), at(code[e], b).insts,
                    adapter[e], size(code[e], b), i))

C7_IdempotentRescan ==
    \A e \in Engines :
        (Returned(e) /\ calcBlock[e] # NoBlock) =>
            Range(workset[e]) = RescanResult(e, calcBlock[e], instIndex[e])

C7_Reached ==
    \E e \in Engines :
        /\ Returned(e)
        /\ calcBlock[e] # NoBlock
        /\ instIndex[e] = 0
        /\ size(code[e], calcBlock[e]) = 2
        /\ workset[e] # <<>>
        /\ Range(workset[e]) # liveAtTail[e][calcBlock[e]]

(***************************************************************************)
(* C8: determinism.  Two constructions over the same code end with the     *)
(* same liveAtTail set for every block, whatever the iteration orders.     *)
(***************************************************************************)
C8_Deterministic ==
    \A e1, e2 \in Engines :
        (/\ code[e1] = code[e2] /\ adapter[e1] = adapter[e2]
         /\ Returned(e1) /\ Returned(e2)) =>
            \A b \in BlockIds : liveAtTail[e1][b] = liveAtTail[e2][b]

C8_Reached ==
    \E e1, e2 \in Engines :
        /\ e1 # e2
        /\ code[e1] = code[e2] /\ adapter[e1] = adapter[e2]
        /\ Returned(e1) /\ Returned(e2)
        /\ \E b \in BlockIds : Cardinality(liveAtTail[e1][b]) >= 2

(***************************************************************************)
(* C9: after the constructor has returned, no LocalCalc operation changes  *)
(* any liveAtTail set (nor liveAtHead, the dirty bits or the code).        *)
(***************************************************************************)
C9_TailStable ==
    [][\A e \in Engines :
          Returned(e) =>
              /\ liveAtTail'[e] = liveAtTail[e]
              /\ liveAtHead'[e] = liveAtHead[e]
              /\ dirtyBlocks'[e] = dirtyBlocks[e]
              /\ code'[e] = code[e]]_vars

C9_Reached ==
    \E e \in Engines :
        /\ Returned(e)
        /\ calcBlock[e] # NoBlock
        /\ instIndex[e] = 0
        /\ liveAtTail[e][calcBlock[e]] # {}
        /\ Range(workset[e]) # liveAtTail[e][calcBlock[e]]

C11_SlotMaxIndex ==
    \A e \in Engines :
        adapter[e] = "StackSlot" =>
            WorksetCapacity(e) = Len(code[e].stackSlots)

(***************************************************************************)
(* C13: when the fixed-point loop has exited, no existing (non-null) block *)
(* has its dirty bit set: every block whose liveAtTail gained an entity    *)
(* has been scanned again after the gain.                                  *)
(***************************************************************************)
C13_NoDirtyBlockAtExit ==
    \A e \in Engines :
        Returned(e) => dirtyBlocks[e] \cap Blocks(code[e]) = {}

(***************************************************************************)
(* C17: execute(i) turns the workset W into ((W minus D_i) union E_i)      *)
(* union L_(i-1): D_i and E_i are the accepted Def and EarlyUse indices of *)
(* instruction i, L_(i-1) the accepted LateUse indices of instruction i-1  *)
(* (empty when i = 0); so an entity that i both defines and early-uses is  *)
(* live before i.                                                          *)
(***************************************************************************)
ExecuteSets(W, insts, a, i) ==
    ((W \ Range(Defs(insts[i + 1], a))) \cup Range(EarlyUses(insts[i + 1], a)))
    \cup (IF i # 0 THEN Range(LateUses(insts[i], a)) ELSE {})

C17_ExecuteTransforms ==
    [][\A e \in Engines :
          (ScanExecute(e) \/ ConsumerExecute(e)) =>
              Range(workset'[e]) =
                  ExecuteSets(Range(workset[e]), at(code[e], calcBlock[e]).insts,
                              adapter[e], instIndex[e] - 1)]_vars

\* execute has just run on an instruction that defines and early-uses the
\* same entity, and the entity is in the workset.
C17_Reached ==
    \E e \in Engines :
        /\ calcBlock[e] # NoBlock
        /\ instIndex[e] < size(code[e], calcBlock[e])
        /\ LET inst == at(code[e], calcBlock[e]).insts[instIndex[e] + 1]
           IN \E t \in Range(Defs(inst, adapter[e])) \cap Range(EarlyUses(inst, adapter[e])) :
                  SparseContains(workset[e], t)

(***************************************************************************)
(* C18: during a backward scan of a block, the accepted LateUse entities   *)
(* of every instruction j are in the live set at the boundary right after  *)
(* j: in liveAtTail[b] when j is the terminal, in the workset after        *)
(* execute(j+1) otherwise, even when instruction j+1 defines the entity.   *)
(***************************************************************************)
C18_LateUseLiveAcross ==
    \A e \in Engines :
        /\ pc[e] # "seed" =>
               \A b \in Blocks(code[e]) :
                   Range(LateUses(last(code[e], b), adapter[e])) \subseteq liveAtTail[e][b]
        /\ (calcBlock[e] # NoBlock /\ instIndex[e] > 0) =>
               Range(LateUses(at(code[e], calcBlock[e]).insts[instIndex[e]], adapter[e]))
                   \subseteq Range(workset[e])

\* execute(j+1) has run where j+1 defines an entity that j late-uses, and
\* the entity is in the workset.
C18_Reached ==
    \E e \in Engines :
        /\ calcBlock[e] # NoBlock
        /\ instIndex[e] > 0
        /\ instIndex[e] < size(code[e], calcBlock[e])
        /\ LET insts == at(code[e], calcBlock[e]).insts
           IN \E t \in Range(LateUses(insts[instIndex[e]], adapter[e]))
                        \cap Range(Defs(insts[instIndex[e] + 1], adapter[e])) :
                  SparseContains(workset[e], t)

(***************************************************************************)
(* C19: the final liveAtTail sets do not depend on the order in which a    *)
(* pass visits the blocks: the driver run in increasing index order, or in *)
(* any other order, ends with the same liveAtTail set for every block as   *)
(* the constructor's reverse-order run.                                    *)
(***************************************************************************)
C19_OrderIndependent ==
    \A e \in Engines :
        Returned(e) =>
            \A order \in Orders(BlockIds) :
                DriverInOrder(code[e], adapter[e], order) = liveAtTail[e]

(***************************************************************************)
(* C20: each time a dirty block b has been scanned in the fixed-point      *)
(* loop, every index already recorded in liveAtHead[b] is in the resulting *)
(* workset and liveAtHead[b] holds no index twice; so the sizes are equal  *)
(* only when the two are equal as sets, and the clear() shortcut discards  *)
(* no newly live entity.                                                   *)
(***************************************************************************)
NoRepeats(seq) == Cardinality(Range(seq)) = Len(seq)

ScanFinished(e) == pc[e] = "scan" /\ instIndex[e] = 0

C20_DeltaIsNewEntries ==
    \A e \in Engines :
        /\ \A b \in BlockIds : NoRepeats(liveAtHead[e][b])
        /\ ScanFinished(e) =>
               LET head == liveAtHead[e][calcBlock[e]]
               IN /\ Range(head) \subseteq Range(workset[e])
                  /\ Len(workset[e]) = Len(head) => Range(workset[e]) = Range(head)
                  /\ Range(Delta(workset[e], head)) = Range(workset[e]) \ Range(head)

\* A block is scanned again, after liveAtHead recorded entries for it, and
\* the sizes agree.
C20_Reached ==
    \E e \in Engines :
        /\ ScanFinished(e)
        /\ liveAtHead[e][calcBlock[e]] # <<>>
        /\ Len(workset[e]) = Len(liveAtHead[e][calcBlock[e]])

(***************************************************************************)
(* C12: eval('this') observes the this binding of the enclosing function   *)
(* in its current state.  While the binding is uninitialized (the          *)
(* constructor of the derived class A, which has not called super(), and   *)
(* the generator function gen invoked with new) the evaluation throws      *)
(* 'ReferenceError: Cannot access uninitialized variable.'; when it is     *)
(* initialized (the generator method called as c.generator()) it           *)
(* evaluates to the receiver c.                                            *)
(***************************************************************************)
Completed(expr) == jsCall.expr = expr /\ ScriptIdle

EveryUpdateCompletedOnce ==
    /\ [](owed >= 0)
    /\ [](owed > 0 => <>(owed = 0 \/ ~Running))

C14_NoLostUpdate ==
    EveryUpdateCompletedOnce =>
        \A t \in Threads : [](t \in unserved => <>(t \notin unserved \/ ~Running))

(***************************************************************************)
(* C15: the ASSERT_NOT_REACHED of updateCompleted is unreachable: in no    *)
(* execution of ThreadedCompositor does updateCompleted find m_updateState *)
(* equal to Completed at both of its compare-exchanges.                    *)
(***************************************************************************)
C15_AssertUnreachable ==
    \A t \in Threads : ~At(t, "assertNotReached")

(***************************************************************************)
(* C16: for each run of the update function (each rendered frame)          *)
(* updateCompleted is called exactly once, by frameComplete or by a later  *)
(* displayRefreshCallback: never by both for the same frame, so there are  *)
(* never more calls than runs, and never by neither, so no run is left     *)
(* without its call once nothing is in flight that could make it.          *)
(***************************************************************************)
NothingInFlight ==
    /\ Running
    /\ \A t \in Threads : At(t, "idle")
    /\ framesInFlight = 0
    /\ ~displayRefreshTimerActive
    /\ ~updateTimerActive

C16_CompletedExactlyOnce ==
    /\ owed >= 0
    /\ NothingInFlight => owed = 0

(***************************************************************************)
(* C21: in each processing of a dirty block b, the entries appended to     *)
(* liveAtHead[b] and offered to the predecessors are exactly the indices   *)
(* of the scan's live-before-first-instruction set that are not already in *)
(* liveAtHead[b]; when there are none, liveAtHead[b], every liveAtTail     *)
(* set, every dirty bit and the changed flag are left unchanged.           *)
(***************************************************************************)
NewAtHead(e, b) ==
    LiveAtHeadOf(code[e], adapter[e], liveAtTail[e], b) \ Range(liveAtHead[e][b])

C21_DeltaAppendedAndOffered ==
    [][\A e \in Engines :
          Propagate(e) =>
              LET b == calcBlock[e]
                  new == NewAtHead(e, b)
              IN /\ \E added \in Orders(new) :
                        liveAtHead'[e][b] = liveAtHead[e][b] \o added
                 /\ \A h \in BlockIds \ {b} : liveAtHead'[e][h] = liveAtHead[e][h]
                 /\ \A p \in BlockIds :
                        liveAtTail'[e][p] =
                            liveAtTail[e][p]
                            \cup (IF p \in predecessors(code[e], b) THEN new ELSE {})
                 /\ new = {} =>
                        /\ liveAtHead'[e] = liveAtHead[e]
                        /\ liveAtTail'[e] = liveAtTail[e]
                        /\ dirtyBlocks'[e] = dirtyBlocks[e]
                        /\ changed'[e] = changed[e]]_vars

\* A block has been processed a second time with a delta that is not empty
\* and is smaller than what liveAtHead now records for it.
C21_Reached ==
    \E e \in Engines :
        /\ pc[e] = "visit"
        /\ blockIndex[e] < NumBlocks
        /\ workset[e] # <<>>
        /\ Range(workset[e]) \subseteq Range(liveAtHead[e][blockIndex[e]])
        /\ Len(liveAtHead[e][blockIndex[e]]) > Len(workset[e])

(***************************************************************************)
(* C22: during propagation from block b to a predecessor p, p's dirty bit  *)
(* is set only when some delta entity was newly inserted into              *)
(* liveAtTail[p]; when liveAtTail[p] already contained every delta entity, *)
(* p's dirty bit and liveAtTail[p] are unchanged, and the changed flag     *)
(* becomes true only through a predecessor that received a new entity.     *)
(***************************************************************************)
Receives(e, b, p) ==
    /\ p \in predecessors(code[e], b)
    /\ ~(NewAtHead(e, b) \subseteq liveAtTail[e][p])

C22_DirtyOnlyOnInsertion ==
    [][\A e \in Engines :
          Propagate(e) =>
              LET b == calcBlock[e]
              IN /\ \A p \in BlockIds :
                        ~Receives(e, b, p) =>
                            /\ (p \in dirtyBlocks'[e]) = (p \in dirtyBlocks[e])
                            /\ liveAtTail'[e][p] = liveAtTail[e][p]
                 /\ (changed'[e] /\ ~changed[e]) =>
                        \E p \in BlockIds : Receives(e, b, p)]_vars

\* A non-empty delta has been propagated from a block with two
\* predecessors: one already held every delta entity and is still clean,
\* the other is dirty.
C22_Reached ==
    \E e \in Engines :
        /\ pc[e] = "visit"
        /\ blockIndex[e] < NumBlocks
        /\ workset[e] # <<>>
        /\ Range(workset[e]) \subseteq Range(liveAtHead[e][blockIndex[e]])
        /\ \E p, q \in predecessors(code[e], blockIndex[e]) :
               /\ p \notin dirtyBlocks[e]
               /\ Range(workset[e]) \subseteq liveAtTail[e][p]
               /\ q \in dirtyBlocks[e]

(***************************************************************************)
(* C23: in every state during and after construction each index in         *)
(* liveAtTail[p] is justified: it is an accepted LateUse of p's terminal   *)
(* instruction, or it is in the live-before-first-instruction set of some  *)
(* successor of p computed from the current liveAtTail of that successor.  *)
(***************************************************************************)
JustifiedAtTail(e, p) ==
    SeedTail(code[e], adapter[e], p)
    \cup UNION {LiveAtHeadOf(code[e], adapter[e], liveAtTail[e], s) :
                   s \in successors(code[e], p)}

C23_TailJustified ==
    \A e \in Engines : \A p \in BlockIds :
        liveAtTail[e][p] \subseteq JustifiedAtTail(e, p)

\* During construction some tail holds an index that its own terminal does
\* not late-use: it came from a successor.
C23_Reached ==
    \E e \in Engines : \E p \in Blocks(code[e]) :
        /\ pc[e] \in {"visit", "scan"}
        /\ liveAtTail[e][p] \ SeedTail(code[e], adapter[e], p) # {}

(***************************************************************************)
(* C24: throughout construction liveness only grows: no index is ever      *)
(* removed from any liveAtTail[b], and the live-before-first-instruction   *)
(* set computed for a block in a later scan is a superset of the set       *)
(* computed for it in every earlier scan (the scan computes the set that   *)
(* the current tails determine, that set never shrinks from one step to    *)
(* the next, and what liveAtHead[b] recorded from the earlier scans is in  *)
(* the result of the scan that has just finished).                         *)
(***************************************************************************)
C24_LivenessOnlyGrows ==
    /\ [](\A e \in Engines :
             ScanFinished(e) =>
                 /\ Range(workset[e]) =
                        LiveAtHeadOf(code[e], adapter[e], liveAtTail[e], calcBlock[e])
                 /\ Range(liveAtHead[e][calcBlock[e]]) \subseteq Range(workset[e]))
    /\ [][\A e \in Engines : \A b \in BlockIds :
             /\ liveAtTail[e][b] \subseteq liveAtTail'[e][b]
             /\ LiveAtHeadOf(code[e], adapter[e], liveAtTail[e], b)
                    \subseteq LiveAtHeadOf(code[e], adapter[e], liveAtTail'[e], b)]_vars

\* A block has been scanned again and the scan found strictly more than the
\* earlier scans had recorded.
C24_Reached ==
    \E e \in Engines :
        /\ ScanFinished(e)
        /\ liveAtHead[e][calcBlock[e]] # <<>>
        /\ Len(workset[e]) > Len(liveAtHead[e][calcBlock[e]])

(***************************************************************************)
(* C25: over the whole construction each pair (block b, index e) is        *)
(* appended to liveAtHead[b] at most once, so the total number of          *)
(* delta-additions is at most (number of blocks) x (number of entities):   *)
(* until the final clear liveAtHead[b] is only ever extended at its end,   *)
(* it holds entity indices and holds none twice.                           *)
(***************************************************************************)
RECURSIVE SumOfLengths(_, _)
SumOfLengths(heads, S) ==
    IF S = {} THEN 0
    ELSE LET b == CHOOSE x \in S : TRUE
         IN Len(heads[b]) + SumOfLengths(heads, S \ {b})

DeltaAdditions(e) == SumOfLengths(liveAtHead[e], BlockIds)

IsPrefix(s, t) == Len(s) <= Len(t) /\ SubSeq(t, 1, Len(s)) = s

C25_AppendedAtMostOnce ==
    /\ [](\A e \in Engines :
             /\ \A b \in BlockIds :
                    /\ NoRepeats(liveAtHead[e][b])
                    /\ Range(liveAtHead[e][b]) \subseteq Indices(code[e], adapter[e])
                    /\ at(code[e], b).isNull => liveAtHead[e][b] = <<>>
             /\ DeltaAdditions(e) <=
                    Cardinality(Blocks(code[e])) * Cardinality(Indices(code[e], adapter[e])))
    /\ [][\A e \in Engines :
             ~Finish(e) =>
                 \A b \in BlockIds : IsPrefix(liveAtHead[e][b], liveAtHead'[e][b])]_vars

\* The loop is about to exit after five or more delta-additions.
C25_Reached ==
    \E e \in Engines :
        /\ pc[e] = "visit" /\ blockIndex[e] = 0 /\ ~changed[e]
        /\ DeltaAdditions(e) >= 5

(***************************************************************************)
(* C26: constructing a LocalCalc for block b leaves the shared workset     *)
(* equal to exactly liveAtTail[b], whatever the workset held before:       *)
(* leftovers of a previous scan of any block, or of the driver's delta     *)
(* computation, are never visible in a later scan.                         *)
(***************************************************************************)
C26_WorksetIsTail ==
    [][\A e \in Engines :
          (StartScan(e) \/ \E b \in BlockIds : NewLocalCalc(e, b)) =>
              /\ Range(workset'[e]) = liveAtTail[e][calcBlock'[e]]
              /\ NoRepeats(workset'[e])]_vars

\* The driver has constructed the LocalCalc of a block it scans again, and
\* the workset holds the block's tail although an earlier scan of another
\* block had put into it indices that this tail does not hold.
C26_Reached ==
    \E e \in Engines :
        /\ pc[e] = "scan"
        /\ instIndex[e] = size(code[e], calcBlock[e])
        /\ liveAtHead[e][calcBlock[e]] # <<>>
        /\ Range(workset[e]) = liveAtTail[e][calcBlock[e]]
        /\ \E h \in BlockIds :
               ~(Range(liveAtHead[e][h]) \subseteq liveAtTail[e][calcBlock[e]])

(***************************************************************************)
(* C27: for every block b the accepted LateUse operand indices of b's      *)
(* terminal instruction are in liveAtTail[b] in every state from the end   *)
(* of initialization onward, and every block index is dirty when the first *)
(* pass starts, so every existing block is scanned at least once: a pass   *)
(* has scanned every existing block it has gone past, and so has the       *)
(* constructor when it returns.                                            *)
(***************************************************************************)
FirstPassStarts(e) == pc[e] = "pass" /\ scannedBlocks[e] = {}

C27_SeededAndAllScanned ==
    \A e \in Engines :
        /\ pc[e] # "seed" =>
               \A b \in Blocks(code[e]) :
                   SeedTail(code[e], adapter[e], b) \subseteq liveAtTail[e][b]
        /\ FirstPassStarts(e) => dirtyBlocks[e] = BlockIds
        /\ pc[e] = "visit" =>
               {b \in Blocks(code[e]) : b >= blockIndex[e]} \subseteq scannedBlocks[e]
        /\ Returned(e) => Blocks(code[e]) \subseteq scannedBlocks[e]

\* The constructor has returned having scanned a block in which nothing is
\* live at the tail, next to a block whose terminal has late uses.
C27_Reached ==
    \E e \in Engines :
        /\ Returned(e)
        /\ \E b \in scannedBlocks[e] : liveAtTail[e][b] = {}
        /\ \E b \in scannedBlocks[e] : SeedTail(code[e], adapter[e], b) # {}

(***************************************************************************)
(* C28: a null (removed) block slot of the code is skipped by the driver:  *)
(* it is never seeded, never scanned and never propagated from, the        *)
(* liveAtTail sets of the other blocks are the same as if the slot did not *)
(* exist, and its presence does not prevent the fixed-point loop from      *)
(* terminating.                                                            *)
(***************************************************************************)
NullSlots(c) == BlockIds \ Blocks(c)

C28_NullSlotSkipped ==
    /\ [](\A e \in Engines : \A b \in NullSlots(code[e]) :
             /\ liveAtTail[e][b] = {}
             /\ liveAtHead[e][b] = <<>>
             /\ b \notin scannedBlocks[e]
             /\ calcBlock[e] # b)
    /\ [](\A e \in Engines :
             Returned(e) =>
                 \A b \in Blocks(code[e]) :
                     liveAtTail[e][b] =
                         DriverOver(code[e], adapter[e], Blocks(code[e]))[b])
    /\ <>(\A e \in Engines : Returned(e))

\* Every constructor has returned over a code whose slot 1 is null, between
\* two blocks, and liveness has crossed it: the tail of block 0 holds an
\* index that its own terminal does not late-use.
C28_Reached ==
    /\ \A e \in Engines : Returned(e)
    /\ \E e \in Engines :
           /\ NullSlots(code[e]) # {}
           /\ \E b \in Blocks(code[e]), n \in NullSlots(code[e]) :
                  /\ b < n
                  /\ liveAtTail[e][b] \ SeedTail(code[e], adapter[e], b) # {}

(***************************************************************************)
(* C29: CompositingRunLoop starts the one-shot update timer only on a      *)
(* transition of m_updateState into InProgress (from Completed in          *)
(* scheduleUpdate, from PendingAfterCompletion in updateCompleted), so two *)
(* timer starts are always separated by an updateCompleted or stopUpdates, *)
(* and any number of scheduleUpdate calls made while one update is in      *)
(* progress cause exactly one further update after it completes: once such *)
(* a call has returned without a timer start, the state is                 *)
(* PendingAfterCompletion until the completion starts the timer.           *)
(***************************************************************************)
TimerStarted == timerLog'.parity # timerLog.parity

InScheduleUpdate(t) == At(t, "scheduleUpdate") \/ At(t, "scheduleUpdate2")

StartsOnlyIntoInProgress ==
    [][TimerStarted =>
          /\ m_updateState' = "InProgress"
          /\ m_updateState \in {"Completed", "PendingAfterCompletion"}]_vars

StartsSeparated == [](timerLog.starts <= 1)

RequestsKeptPending ==
    [](\A t \in Threads :
          (Running /\ t \in unserved /\ ~InScheduleUpdate(t)) =>
              m_updateState = "PendingAfterCompletion")

C29_TimerStartsCoalesce ==
    /\ StartsOnlyIntoInProgress
    /\ StartsSeparated
    /\ RequestsKeptPending

(***************************************************************************)
(* C30: createCompositingThread returns only after the new thread has      *)
(* created m_compositingRunLoop, m_scene and m_viewportController, so the  *)
(* constructor never dereferences a null m_compositingRunLoop; and the     *)
(* notifyOne cannot be lost: the creator holds                             *)
(* m_initializeRunLoopConditionLock from before createThread until it      *)
(* waits, the new thread notifies while holding the same lock, and so the  *)
(* creator is parked when it is notified.                                  *)
(***************************************************************************)
CreateCompositingThreadReturned ==
    threadPc["main"] \notin {"createCompositingThread", "createThread", "wait", "parked"}

Notified ==
    threadPc["compositing"] \notin
        {"notStarted", "runCompositingThread", "makeRunLoop", "makeScene",
         "makeViewportController", "notifyOne"}

C30_CreateWaitsForThread ==
    /\ (CreateCompositingThreadReturned /\ compositor \in {"constructing", "running"}) =>
           created = Members
    /\ ~At("main", "nullDereference")
    /\ (At("main", "createThread") \/ At("main", "wait")) => LockHeldBy("main")
    /\ At("compositing", "notifyOne") =>
           /\ LockHeldBy("compositing")
           /\ "main" \in m_initializeRunLoopCondition
    /\ Notified =>
           /\ "main" \notin m_initializeRunLoopCondition
           /\ ~At("main", "createCompositingThread")
           /\ ~At("main", "createThread")
           /\ ~At("main", "wait")

\* The constructor has returned: the three members exist, the lock is free
\* and the compositing thread serves its run loop.
C30_Reached ==
    /\ compositor = "running"
    /\ created = Members
    /\ LockFree
    /\ At("main", "idle")
    /\ At("compositing", "idle")
    /\ m_initializeRunLoopCondition = {}

\* C31: terminateCompositingThread, called by the destructor, eventually
\* returns, and it returns only after the compositing thread has left its
\* run loop, called stopUpdates and reset m_compositingRunLoop and m_scene;
\* the termination notifyOne never happens before the destructor is
\* waiting, because the destructor holds m_terminateRunLoopConditionLock
\* from before runLoop().stop() until it waits.
InTerminate ==
    threadPc["main"] \in {"terminate", "stop", "terminateWait", "terminateParked",
                          "terminateReturn"}
TerminateReturned == At("main", "terminateReturn") \/ compositor = "destroyed"
ThreadWoundDown ==
    /\ threadPc["compositing"] \in {"terminateUnlock", "exited"}
    /\ ~updateTimerActive
    /\ m_updateState = "Completed"
    /\ created \cap {"m_compositingRunLoop", "m_scene"} = {}
ReturnsAfterWindDown == TerminateReturned => ThreadWoundDown
NotifyFindsDestructorWaiting ==
    At("compositing", "terminateNotify") => "main" \in m_terminateRunLoopCondition
LockHeldFromStopToWait ==
    threadPc["main"] \in {"stop", "terminateWait"}
        => m_terminateRunLoopConditionLock = "main"
TerminateEventuallyReturns == InTerminate ~> compositor = "destroyed"
C31_TerminateReturnsAfterWindDown ==
    /\ []ReturnsAfterWindDown
    /\ []NotifyFindsDestructorWaiting
    /\ []LockHeldFromStopToWait
    /\ TerminateEventuallyReturns

\* C32: after WorkQueue::platformInvalidate the worker thread eventually
\* leaves g_main_loop_run and ends, whether the loop was running at the
\* invalidation (g_main_loop_quit) or had not started (a one-shot quit
\* source on the queue's context): until the thread has ended its lambda
\* refers to the loop and so keeps the context, and a queued quit source
\* leaves the context only by being dispatched in the worker's loop.
Invalidated == WqAt("caller", "invalidated")
WorkerEnded == WqAt("worker", "ended")
WorkerEventuallyEnds == Invalidated ~> WorkerEnded
LambdaKeepsLoop ==
    ~WorkerEnded => lambdaEventLoop = "loop" /\
                    ContextAlive(m_eventContext, m_eventLoop, lambdaEventLoop)
QuitSourceOnlyDispatched ==
    [][("quit" \in attached /\ "quit" \notin attached')
           => (WqAt("worker", "loop") /\ ~is_running' /\ UNCHANGED wqPc)]_vars
InvalidateQuitsOneWay ==
    /\ WqAt("caller", "quit") => is_running /\ WqAt("worker", "loop")
    /\ quitVia = "none" => ~(WqAt("worker", "pop") \/ WorkerEnded)
C32_InvalidatedThreadEnds ==
    /\ WorkerEventuallyEnds
    /\ []LambdaKeepsLoop
    /\ QuitSourceOnlyDispatched
    /\ []InvalidateQuitsOneWay

\* The thread has ended after an invalidation that found the loop not yet
\* running and queued the quit source.
C32_Reached == Invalidated /\ WorkerEnded /\ quitVia = "source"

\* C33: the handler installed by registerSocketEventHandler calls
\* closeFunction and is removed whenever the condition contains HUP, ERR or
\* NVAL, also when IN is set; it calls function and stays registered when
\* the condition contains IN and none of those; function is never called
\* after closeFunction was called for the same registration.
Hangup(condition) == condition \cap {"HUP", "ERR", "NVAL"} # {}
HandlerRan == socketLog'.events # socketLog.events
HandlerClosesOnHangup ==
    [][(HandlerRan /\ Hangup(socketLog'.condition))
           => /\ socketLog'.called = "closeFunction"
              /\ "socket" \notin attached']_vars
HandlerReadsOnInput ==
    [][(HandlerRan /\ ~Hangup(socketLog'.condition) /\ "IN" \in socketLog'.condition)
           => /\ socketLog'.called = "function"
              /\ "socket" \in attached']_vars
NoFunctionAfterClose ==
    /\ ~socketLog.functionAfterClose
    /\ socketLog.closeCalled => "socket" \notin attached
C33_HangupClosesInputReads ==
    /\ HandlerClosesOnHangup
    /\ HandlerReadsOnInput
    /\ []NoFunctionAfterClose

\* The handler of a second registration has just been called with input and
\* hang-up together.
C33_Reached ==
    /\ socketLog.registration = 2
    /\ socketLog.condition = {"IN", "HUP"}
    /\ socketLog.called = "closeFunction"
    /\ "socket" \notin attached

====
